---------------------------- MODULE Spec2Model ----------------------------
(***************************************************************************)
(* Haikara flexible compute scheduler: the job lifecycle queues of the     *)
(* ComputeMonitor, the P415 flexibility bid valuator, the greedy window    *)
(* optimizer of the BAP agent, and the orchestration cycle of the          *)
(* OrchestratorAgent with its Beckn transactions.                          *)
(***************************************************************************)
EXTENDS Integers, Sequences, FiniteSets, TLC

VARIABLES
    \* ---- ComputeMonitor (src/beckn/agents/compute_monitor.py)
    pending_jobs,      \* list of job ids
    scheduled_jobs,
    running_jobs,
    completed_jobs,
    failed_jobs,
    status,            \* job id -> the job's status field
    job_counter,       \* number of jobs generated so far
    raised,            \* the last monitor call ended in ValueError
    \* ---- P415BidEngine (src/optimization/p415_bidder.py)
    revenue_share,     \* platform share, in percent
    active_bids,       \* list of bids created
    bid_job,           \* the job the engine is asked about
    bid_call,          \* the last call: its job, its event and what it returned
    \* ---- BAP agent (src/haikara_beckn_bap_agent.py)
    hash_of,           \* window index -> hash(window_id) mod 15, fixed per process
    workloads,         \* the workload list of the last submit_workloads
    plan,              \* the plan optimize_schedule made for it
    \* ---- OrchestratorAgent (src/beckn/agents/orchestrator.py) and
    \*      BecknOrchestrator (src/drafts/copy/beckn/bap_client.py)
    job_table,         \* job id -> the attributes _generate_mock_jobs draws for it
    pc,                \* where run_cycle stands
    cycle_count,
    total_jobs_processed,
    total_cost_saved,  \* the orchestrator's own running totals of the savings
    total_carbon_saved,
    new_jobs,          \* the pending jobs this cycle works on
    grid_forecast,     \* the forecast this cycle fetched
    schedule,          \* the schedule optimize returned
    used_fallback,     \* optimize substituted _fallback_schedule this cycle
    exec_idx,          \* position of execute_schedule's loop in the schedule
    txn_state,         \* protocol state of the transaction in flight
    outcome,           \* job id -> how its transaction ended in its cycle
    active_transactions, \* confirmed orders
    decisions,         \* the decision ledger
    txn_log,           \* the exchanges of the transaction in flight, with their results
    attempted,         \* the jobs whose search request went out this cycle
    transaction_id,    \* the id of the transaction in flight (0: none)
    uuid_count,        \* the transaction ids uuid4 has handed out so far
    requests,          \* the protocol requests sent so far in this cycle
    stopped,           \* the process has exited on an interrupt signal
    \* ---- AuditLogger (src/drafts/copy/beckn/agents/audit_logger.py)
    logger,            \* the in-memory totals of the audit logger
    ledger_call,       \* the last call on the logger: its kind, whether its
                       \* write failed, the record count asked for, the list returned
    \* ---- decision_cycle of the BAP agent (src/haikara_beckn_bap_agent.py)
    program,           \* the process that runs: the orchestrator or the BAP agent
    dc_idx,            \* per task, position of decision_cycle's loop in the plan
    dc_step,           \* per task, the request decision_cycle sends next
    dc_workloads,      \* per task, the workloads decision_cycle was called with
    dc_iter,           \* per task, the iterator of the monitoring loop: the
                       \* position it is at and the size ORDERS had at its start
    dc_count,          \* decision cycles started so far
    audit_log,         \* per task, the events its decision cycle has audited
    callback_log,      \* the events the callback handlers have audited
    status_sent,       \* per order, the status messages sent and settlement
                       \* records written since the order was created
    ORDERS,            \* order id -> local order record
    \* ---- CarbonAwareForecaster (src/drafts/copy/optimization/forecaster.py)
    use_gpt4,          \* the advisory (GPT-4) path is switched on
    fc_call,           \* the forecast_optimal_windows call: where it stands, its
                       \* job and forecast, the advisory reply, what it returned
    \* ---- GridDataIngestor (src/drafts/copy/beckn/agents/grid_data_ingestor.py)
    last_forecast,     \* the cached forecast, None before the first fetch
    fetch_call         \* the last fetch_forecast call: what each source did, the
                       \* synthetic data at hand, and the forecast returned

monitorVars == <<pending_jobs, scheduled_jobs, running_jobs, completed_jobs,
                 failed_jobs, status, job_counter, raised>>
bidVars == <<revenue_share, active_bids, bid_job, bid_call>>
agentVars == <<hash_of, workloads, plan>>
cycleVars == <<job_table, pc, cycle_count, total_jobs_processed, total_cost_saved,
                   total_carbon_saved, new_jobs,
               grid_forecast, schedule, used_fallback, exec_idx, txn_state,
               outcome, active_transactions, decisions, txn_log, attempted,
               transaction_id, uuid_count, requests, stopped, logger, ledger_call>>
dcVars == <<program, dc_idx, dc_step, dc_workloads, dc_iter, dc_count, audit_log,
            callback_log, status_sent, ORDERS>>
forecasterVars == <<use_gpt4, fc_call>>
ingestorVars == <<last_forecast, fetch_call>>
serviceVars == <<forecasterVars, ingestorVars>>
vars == <<monitorVars, bidVars, agentVars, cycleVars, dcVars, serviceVars>>

None == "None"

(***************************************************************************)
(* Bounds                                                                  *)
(***************************************************************************)
MaxJobs == 2        \* jobs ever generated by the monitor
MaxBids == 1        \* length of active_bids explored
NumWindows == 3     \* hourly grid windows simulated (the agent simulates 48)
MaxWorkloads == 2   \* workloads in one submit_workloads request
MaxCycles == 2      \* run_cycle calls explored
Horizon == 3        \* optimization horizon in hours (24 by default)

JobIds == 1..MaxJobs

(***************************************************************************)
(* Sequence helpers                                                        *)
(***************************************************************************)
Range(s) == {s[i] : i \in 1..Len(s)}

InSeq(x, s) == \E i \in 1..Len(s) : s[i] = x

Count(x, s) == Cardinality({i \in 1..Len(s) : s[i] = x})

FirstIndex(x, s) == CHOOSE i \in 1..Len(s) : s[i] = x /\ \A k \in 1..(i-1) : s[k] # x

\* a remove that takes nothing out
ListRemove_keep(s, x) == s

\* list.remove(x) on a list that holds x: the first occurrence goes
ListRemove(s, x) ==
    LET i == FirstIndex(x, s)
    IN  SubSeq(s, 1, i-1) \o SubSeq(s, i+1, Len(s))

(***************************************************************************)
(* Floating-point arithmetic                                               *)
(*                                                                         *)
(* Costs, carbon and savings are Python floats.  They are held here as     *)
(* whole numbers of the smallest unit, in a binary floating-point format   *)
(* with Precision significant bits: the result of every operation is       *)
(* rounded to the nearest representable value, ties to even.               *)
(***************************************************************************)
Precision == 12

Abs(x) == IF x < 0 THEN 0 - x ELSE x

\* the spacing of the representable values around the magnitude a
RECURSIVE Ulp(_, _)
Ulp(a, u) == IF a < u * 2^Precision THEN u ELSE Ulp(a, 2 * u)

\* the multiple of the spacing u nearest to the magnitude a, ties to even
Nearest(a, u) ==
    IF 2 * (a % u) > u \/ (2 * (a % u) = u /\ (a \div u) % 2 = 1)
    THEN (a \div u + 1) * u
    ELSE (a \div u) * u

\* the float that holds the exact result x of an operation
Fl(x) ==
    CHOOSE r \in UNION {{IF v < 0 THEN 0 - Nearest(0 - v, u) ELSE Nearest(v, u) :
                            u \in {Ulp(Abs(v), 1)}} : v \in {x}} : TRUE

FAdd(a, b) == Fl(a + b)
FSub(a, b) == Fl(a - b)
FMul(a, b) == Fl(a * b)
(***************************************************************************)
(* ComputeMonitor                                                          *)
(***************************************************************************)
Statuses == {"pending", "scheduled", "running", "completed", "failed"}
\* status arguments a caller may pass: the five lifecycle names and one
\* string that names no lifecycle state
StatusArgs == Statuses \cup {"paused"}

Monitor ==
    [pending_jobs |-> pending_jobs, scheduled_jobs |-> scheduled_jobs,
     running_jobs |-> running_jobs, completed_jobs |-> completed_jobs,
     failed_jobs |-> failed_jobs, status |-> status, raised |-> raised]

MonitorInit ==
    /\ pending_jobs = <<>>
    /\ scheduled_jobs = <<>>
    /\ running_jobs = <<>>
    /\ completed_jobs = <<>>
    /\ failed_jobs = <<>>
    /\ status = [j \in JobIds |-> None]
    /\ job_counter = 0
    /\ raised = FALSE

\* a lookup that goes through all five queues
FindJob_all(m, job_id) ==
    InSeq(job_id, m.pending_jobs \o m.scheduled_jobs \o m.running_jobs
                    \o m.completed_jobs \o m.failed_jobs)
\* the lookup at the head of update_job_status: pending first, then
\* scheduled + running; completed and failed jobs are never found
FindJob(m, job_id) ==
    \/ InSeq(job_id, m.pending_jobs)
    \/ InSeq(job_id, m.scheduled_jobs \o m.running_jobs)

\* queue.remove(job); other.append(job): remove raises ValueError when the
\* job is not in the queue, and then nothing is appended
MoveJob(m, job_id, from, to) ==
    IF InSeq(job_id, m[from])
    THEN [m EXCEPT ![from] = ListRemove(m[from], job_id),
                   ![to] = Append(m[to], job_id)]
    ELSE [m EXCEPT !.raised = TRUE]

\* the 'failed' branch: leave whichever queue holds the job, join failed_jobs
FailJob(m, job_id) ==
    LET m1 == IF InSeq(job_id, m.pending_jobs)
              THEN [m EXCEPT !.pending_jobs = ListRemove(@, job_id)]
              ELSE IF InSeq(job_id, m.scheduled_jobs)
              THEN [m EXCEPT !.scheduled_jobs = ListRemove(@, job_id)]
              ELSE IF InSeq(job_id, m.running_jobs)
              THEN [m EXCEPT !.running_jobs = ListRemove(@, job_id)]
              ELSE m
    IN  [m1 EXCEPT !.failed_jobs = Append(@, job_id)]

\* job.status = status, assigned before any queue is looked at
SetStatus(m, job_id, st) == [m EXCEPT !.status[job_id] = st]

update_job_status(m, job_id, st) ==
    LET m0 == [m EXCEPT !.raised = FALSE]
    IN  IF ~FindJob(m0, job_id) THEN m0
        ELSE LET old_status == m0.status[job_id]
                 m1 == SetStatus(m0, job_id, st)
             IN  IF st = "scheduled" /\ old_status = "pending"
                 THEN MoveJob(m1, job_id, "pending_jobs", "scheduled_jobs")
                 ELSE IF st = "running" /\ old_status = "scheduled"
                 THEN MoveJob(m1, job_id, "scheduled_jobs", "running_jobs")
                 ELSE IF st = "completed" /\ old_status = "running"
                 THEN MoveJob(m1, job_id, "running_jobs", "completed_jobs")
                 ELSE IF st = "failed"
                 THEN FailJob(m1, job_id)
                 ELSE m1

\* _generate_mock_jobs(count): count fresh jobs, numbered by job_counter,
\* each with status 'pending'
GenerateMockJobs(count) == [i \in 1..count |-> job_counter + i]

SetMonitor(m) ==
    /\ pending_jobs' = m.pending_jobs
    /\ scheduled_jobs' = m.scheduled_jobs
    /\ running_jobs' = m.running_jobs
    /\ completed_jobs' = m.completed_jobs
    /\ failed_jobs' = m.failed_jobs
    /\ status' = m.status
    /\ raised' = m.raised

\* get_pending_jobs: with some chance new jobs arrive and join pending_jobs
\* (count = 0 is the call without arrivals); a copy of the queue is returned
get_pending_jobs(count) ==
    LET generated == GenerateMockJobs(count)
    IN  [Monitor EXCEPT
            !.pending_jobs = @ \o generated,
            !.status = [j \in JobIds |->
                           IF j \in Range(generated) THEN "pending" ELSE @[j]],
            !.raised = FALSE]

GetPendingJobs ==
    /\ \E count \in 0..(MaxJobs - job_counter) :
          /\ SetMonitor(get_pending_jobs(count))
          /\ job_counter' = job_counter + count
    /\ UNCHANGED <<bidVars, agentVars, cycleVars, dcVars, serviceVars>>

UpdateJobStatus ==
    /\ \E job_id \in JobIds, st \in StatusArgs :
          SetMonitor(update_job_status(Monitor, job_id, st))
    /\ UNCHANGED <<job_counter, bidVars, agentVars, cycleVars, dcVars, serviceVars>>

(***************************************************************************)
(* P415BidEngine                                                           *)
(*                                                                         *)
(* Money is kept exact: a value v in pounds is held as the integer         *)
(* v * ValueScale, where ValueScale = 60 (minutes per hour) * 10 (the      *)
(* multipliers are tenths) * 100 (the share is a percentage).              *)
(***************************************************************************)
ValueScale == 60 * 10 * 100

Products == {"DC", "DM", "DR"}            \* keys of self.products
EventProducts == Products \cup {"FFR"}    \* FFR: a product the engine does not know

BidJobs ==
    [id : {1}, can_defer : BOOLEAN, can_interrupt : BOOLEAN,
     flexibility_minutes : {4, 5}, power_mw : {0, 2}]

\* an event dict: keys names the optional keys the dict holds (the value of
\* a key it does not hold is never read)
BidEvents ==
    [product : EventProducts, keys : {{"clearing_price", "duration_minutes"}},
     clearing_price : {150}, duration_minutes : {30, 60}]
    \cup [product : EventProducts, keys : {{"clearing_price"}},
          clearing_price : {150}, duration_minutes : {0}]
    \cup [product : EventProducts, keys : {{"duration_minutes"}},
          clearing_price : {0}, duration_minutes : {30}]

\* grid_event.get(key, default)
Get(event, key, default) == IF key \in event.keys THEN event[key] ELSE default

\* one multiplier for every product
Multiplier_flat(product) == 8

\* revenue multiplier of a product, in tenths
Multiplier(product) ==
    CASE product = "DC" -> 8
      [] product = "DM" -> 5
      [] product = "DR" -> 3

\* participation without any check of the job
Eligible_any(job, product) == product \in Products

\* participation where DC asks for can_defer as well
Eligible_dc_defer(job, product) ==
    CASE product = "DC" -> job.can_defer
      [] product = "DM" -> job.can_defer /\ job.flexibility_minutes >= 5
      [] product = "DR" -> job.can_defer
      [] OTHER -> FALSE

\* the participation checks: may this job be offered into this product
Eligible(job, product) ==
    CASE product = "DC" -> job.can_interrupt
      [] product = "DM" -> job.can_defer /\ job.flexibility_minutes >= 5
      [] product = "DR" -> job.can_defer
      [] OTHER -> FALSE

\* the value returned, times ValueScale
calculate_flexibility_value(job, grid_event, share) ==
    LET product == grid_event.product
        clearing_price == Get(grid_event, "clearing_price", 0)
        duration_minutes == Get(grid_event, "duration_minutes", 30)
    IN  IF product \notin Products THEN 0
        ELSE IF ~Eligible(job, product) THEN 0
        ELSE LET \* revenue * 600
                 revenue == clearing_price * job.power_mw * duration_minutes
                            * Multiplier(product)
                 \* platform_revenue * 60000
                 platform_revenue == revenue * share
             IN  revenue * 100 - platform_revenue

\* the bid dict; bid_price = value / (power_mw * duration_minutes / 60) is kept
\* as the fraction bid_price_num / bid_price_den (in pounds per MWh), and is
\* "ZeroDivisionError" when the divisor is 0
MakeBid(job, event, value) ==
    LET duration_minutes == Get(event, "duration_minutes", 30)
        den == job.power_mw * duration_minutes * (ValueScale \div 60)
    IN  [job_id |-> job.id,
         product |-> event.product,
         power_mw |-> job.power_mw,
         duration_minutes |-> duration_minutes,
         bid_price_num |-> IF den = 0 THEN "ZeroDivisionError" ELSE value,
         bid_price_den |-> den,
         expected_revenue |-> value]

\* a create_bid that turns away negative values only
create_bid_nonneg(job, event, share) ==
    LET value == calculate_flexibility_value(job, event, share)
    IN  IF value < 0 THEN <<>> ELSE <<MakeBid(job, event, value)>>

\* what create_bid returns: <<>> for None, <<bid>> for a bid
create_bid(job, event, share) ==
    LET value == calculate_flexibility_value(job, event, share)
    IN  IF value <= 0 THEN <<>> ELSE <<MakeBid(job, event, value)>>

BidInit ==
    /\ revenue_share = 10
    /\ active_bids = <<>>
    /\ bid_job = [id |-> 1, can_defer |-> TRUE, can_interrupt |-> TRUE,
                  flexibility_minutes |-> 5, power_mw |-> 2]
    /\ bid_call = [op |-> "init", job |-> <<>>, event |-> <<>>, value |-> 0, bid |-> <<>>]

\* P415BidEngine(revenue_share): the share is fixed at construction; the
\* engine is then asked about one job and arbitrary events
BidConstruct ==
    /\ revenue_share \in {10, 50}
    /\ active_bids = <<>>
    /\ bid_job \in BidJobs
    /\ bid_call = [op |-> "init", job |-> <<>>, event |-> <<>>, value |-> 0, bid |-> <<>>]

CalculateFlexibilityValue ==
    /\ \E job \in {bid_job}, event \in BidEvents :
          bid_call' = [op |-> "calculate_flexibility_value", job |-> job,
                       event |-> event,
                       value |-> calculate_flexibility_value(job, event, revenue_share),
                       bid |-> <<>>]
    /\ UNCHANGED <<revenue_share, active_bids, bid_job, monitorVars, agentVars, cycleVars, dcVars, serviceVars>>

CreateBid ==
    /\ \E job \in {bid_job}, event \in BidEvents :
          LET bid == create_bid(job, event, revenue_share)
          IN  /\ bid # <<>> => Len(active_bids) < MaxBids
              /\ bid_call' = [op |-> "create_bid", job |-> job, event |-> event,
                              value |-> calculate_flexibility_value(job, event, revenue_share),
                              bid |-> bid]
              /\ active_bids' = active_bids \o bid
    /\ UNCHANGED <<revenue_share, bid_job, monitorVars, agentVars, cycleVars, dcVars, serviceVars>>


(***************************************************************************)
(* BAP agent: simulated grid windows, forecast and greedy optimizer        *)
(*                                                                         *)
(* Times are whole hours after the start of the simulation; prices are in  *)
(* units of 0.0001 pounds per kWh.                                         *)
(***************************************************************************)
AvailableMw == 10

WindowIds == 0..(NumWindows - 1)

Max(a, b) == IF a >= b THEN a ELSE b

\* generate_simulated_grid_windows: window i covers the hour [i, i+1]
GridWindow(i) ==
    [window_id |-> i, start |-> i, end |-> i + 1,
     carbon_gco2 |-> 200 - (i % 6) * 20,
     price_per_kwh |-> Max(100, 2000 - (i % 6) * 100),
     renewable_pct |-> Max(10, 50 + ((i + 3) % 6) * 8),
     available_mw |-> AvailableMw]

\* short_horizon_forecast: the window plus noise taken from hash(window_id)
Forecast(i, h) ==
    LET w == GridWindow(i)
    IN  [window_id |-> w.window_id, start |-> w.start, end |-> w.end,
         renewable_pct |-> w.renewable_pct, available_mw |-> w.available_mw,
         forecasted_carbon_gco2 |-> Max(0, w.carbon_gco2 + (2 - (h % 5))),
         forecasted_price_per_kwh |->
             Max(100, (w.price_per_kwh * (100 + ((h % 3) - 1) * 2)) \div 100)]

short_horizon_forecast == [i \in WindowIds |-> Forecast(i, hash_of[i])]

\* the window filter of optimize_schedule
IsCandidate(job, w) ==
    /\ w.start >= job.earliest_start
    /\ w.end <= job.latest_end
    /\ w.available_mw >= job.required_mw

\* candidate_windows.sort(key = (price, carbon, -renewable)): a before b
SortsBefore(a, b) ==
    \/ a.forecasted_price_per_kwh < b.forecasted_price_per_kwh
    \/ /\ a.forecasted_price_per_kwh = b.forecasted_price_per_kwh
       /\ \/ a.forecasted_carbon_gco2 < b.forecasted_carbon_gco2
          \/ /\ a.forecasted_carbon_gco2 = b.forecasted_carbon_gco2
             /\ a.renewable_pct > b.renewable_pct

\* candidate_windows[0] after the stable sort: the least key, and among equal
\* keys the window that came first in forecasts
Chosen(cands, forecasts) ==
    CHOOSE i \in cands :
        \A k \in cands \ {i} :
            \/ SortsBefore(forecasts[i], forecasts[k])
            \/ ~SortsBefore(forecasts[k], forecasts[i]) /\ i < k

PlanEntry(job, forecasts) ==
    LET cands == {i \in DOMAIN forecasts : IsCandidate(job, forecasts[i])}
    IN  IF cands = {}
        THEN [job_id |-> job.job_id, window_id |-> None, action |-> "defer"]
        ELSE LET chosen == forecasts[Chosen(cands, forecasts)]
             IN  [job_id |-> job.job_id,
                  window_id |-> chosen.window_id,
                  start |-> chosen.start,
                  end |-> chosen.end,
                  price_per_kwh |-> chosen.forecasted_price_per_kwh,
                  carbon_gco2 |-> chosen.forecasted_carbon_gco2,
                  action |-> "schedule"]

optimize_schedule(wl, forecasts) ==
    [k \in 1..Len(wl) |-> PlanEntry(wl[k], forecasts)]

\* the WorkloadSpec of job k of a request
WorkloadSpecs(k) ==
    [job_id : {k}, required_mw : {6, 12}, duration_minutes : {60, 120},
     earliest_start : {0, 1}, latest_end : {2, NumWindows}]

WorkloadLists ==
    UNION {{wl \in [1..n -> UNION {WorkloadSpecs(k) : k \in 1..n}] :
               \A k \in 1..n : wl[k].job_id = k} : n \in 1..MaxWorkloads}

AgentInit ==
    /\ hash_of = [i \in WindowIds |-> 7]
    /\ workloads = <<>>
    /\ plan = <<>>

\* hash() of a string differs from process to process
AgentStart ==
    /\ hash_of \in [WindowIds -> {0, 7}]
    /\ workloads = <<>>
    /\ plan = <<>>

\* submit_workloads + decision_cycle steps 1-3: observe the windows, forecast,
\* optimize
SubmitWorkloads ==
    /\ \E wl \in WorkloadLists :
          /\ workloads' = wl
          /\ plan' = optimize_schedule(wl, short_horizon_forecast)
    /\ UNCHANGED <<hash_of, monitorVars, bidVars, cycleVars, dcVars, serviceVars>>

(***************************************************************************)
(* BAP agent: decision_cycle, step by step between its awaits              *)
(*                                                                         *)
(* Every submit_workloads call starts a decision cycle as a background     *)
(* task of the one event loop, next to the callback handlers.  A task is   *)
(* suspended only in the asyncio.sleep calls of decision_cycle; bap_post   *)
(* is the mock of the source, which answers every request with status 200  *)
(* without suspending.                                                     *)
(***************************************************************************)
MaxTasks == 2        \* decision cycles in flight together
MaxDecisions == 2    \* decision cycles started
MaxCallbacks == 2    \* on_init / on_confirm callbacks delivered

Tasks == 1..MaxTasks

\* uuid4 of the callbacks: an order id no job has
OrderIds == 1..(MaxWorkloads + MaxCallbacks)

\* a WorkloadSpec with the whole horizon to run in
DecisionSpec(k, mw) ==
    [job_id |-> k, required_mw |-> mw,
     duration_minutes |-> IF k % 2 = 1 THEN 60 ELSE 120,
     earliest_start |-> 0, latest_end |-> NumWindows,
     carbon_budget_gco2_per_kwh |-> IF k % 2 = 1 THEN 250 ELSE 100,
     type |-> IF k % 2 = 1 THEN "batch" ELSE "training"]

\* the requests the decision cycle is run on: the first job fits a window
\* (6 MW) or fits none (12 MW), the jobs after it fit a window (4 MW)
DecisionWorkloads ==
    { [k \in 1..n |-> DecisionSpec(k, IF k = 1 THEN mw ELSE 4)] :
        n \in 1..MaxWorkloads, mw \in {6, 12} }

NoStatus == [started |-> 0, completed |-> 0, settlement |-> 0]
NoIter == [pos |-> 0, used |-> 0]

DecisionIdle ==
    /\ dc_idx = [t \in Tasks |-> 0]
    /\ dc_step = [t \in Tasks |-> "idle"]
    /\ dc_workloads = [t \in Tasks |-> <<>>]
    /\ dc_iter = [t \in Tasks |-> NoIter]
    /\ dc_count = 0
    /\ audit_log = [t \in Tasks |-> <<>>]
    /\ callback_log = <<>>
    /\ status_sent = [o \in OrderIds |-> NoStatus]
    /\ ORDERS = <<>>

\* audit(event_type, payload): one more record in the audit file
Audit(log, event, job_id) == Append(log, [event |-> event, job_id |-> job_id])

\* ORDERS[order_id] = record on a dict, which keeps its keys in insertion order
DictSet(d, order_id, record) ==
    IF \E i \in DOMAIN d : d[i].order_id = order_id
    THEN [i \in DOMAIN d |-> IF d[i].order_id = order_id THEN record ELSE d[i]]
    ELSE Append(d, record)

\* the request that follows a request of one job
StepAfter(step) ==
    CASE step = "search" -> "select"
      [] step = "select" -> "init"
      [] step = "init" -> "confirm"
      [] step = "confirm" -> "search"

\* the event send_<step> audits
SentEvent(step) == step \o "_sent"

\* plan = optimize_schedule(workloads, forecasts) of the cycle of task t
PlanOf(t) == optimize_schedule(dc_workloads[t], short_horizon_forecast)

InPlan(t) == dc_idx[t] \in DOMAIN PlanOf(t)

\* what the request of a step says of the job: the search criteria, the
\* select details, the order of init
Details(step, p, wl) ==
    CASE step = "search" ->
            [capacity_mw |-> wl[1].required_mw,
             max_carbon |-> wl[1].carbon_budget_gco2_per_kwh]
      [] step = "select" ->
            [selected_window_id |-> p.window_id,
             requested_capacity_mw |-> wl[1].required_mw,
             job_id |-> p.job_id]
      [] step = "init" ->
            [id |-> p.job_id, job_id |-> p.job_id, window_id |-> p.window_id,
             required_mw |-> wl[1].required_mw,
             duration_minutes |-> wl[1].duration_minutes,
             type |-> wl[1].type]

\* a task runs from one asyncio.sleep to the next: it is suspended after a
\* search, a select or an init and inside the monitoring loop
Suspended(t) == dc_step[t] \in {"idle", "raised", "select", "init", "confirm", "monitor"}

\* the event loop runs task t: no other task is between two sleeps
Runs(t) == \A s \in Tasks \ {t} : Suspended(s)

\* send_status(status_details) of one order
SendStatus(sent, order_id, what) == [sent EXCEPT ![order_id][what] = @ + 1]

\* submit_workloads hands the list to decision_cycle, whose steps 1-3 observe
\* the windows, forecast and optimize
DecisionCycle_Plan(t) ==
    /\ Runs(t)
    /\ dc_step[t] \in {"idle", "raised"}
    /\ \A s \in Tasks : s < t => dc_step[s] \notin {"idle", "raised"}
    /\ dc_count < MaxDecisions
    /\ dc_count' = dc_count + 1
    /\ \E wl \in DecisionWorkloads :
          /\ workloads' = wl
          /\ plan' = optimize_schedule(wl, short_horizon_forecast)
          /\ dc_workloads' = [dc_workloads EXCEPT ![t] = wl]
    /\ dc_idx' = [dc_idx EXCEPT ![t] = 1]
    /\ dc_step' = [dc_step EXCEPT ![t] = "search"]
    /\ dc_iter' = [dc_iter EXCEPT ![t] = NoIter]
    /\ audit_log' = [audit_log EXCEPT ![t] = <<[event |-> "plan_generated", job_id |-> 0]>>]
    /\ UNCHANGED <<hash_of, program, ORDERS, callback_log, status_sent,
                   monitorVars, bidVars, cycleVars, serviceVars>>

\* step 4, a plan entry without a window: the job is skipped
DecisionCycle_Defer(t) ==
    /\ Runs(t)
    /\ dc_step[t] = "search" /\ InPlan(t)
    /\ PlanOf(t)[dc_idx[t]].action # "schedule"
    /\ audit_log' = [audit_log EXCEPT
                        ![t] = Audit(@, "job_deferred", PlanOf(t)[dc_idx[t]].job_id)]
    /\ dc_idx' = [dc_idx EXCEPT ![t] = @ + 1]
    /\ UNCHANGED <<dc_step, dc_workloads, dc_iter, dc_count, program, ORDERS,
                   callback_log, status_sent, agentVars, monitorVars, bidVars,
                   cycleVars, serviceVars>>

\* steps 4.1 - 4.3: send_search, send_select, send_init, each audited as it is
\* sent and awaited before the next
DecisionCycle_Send(t) ==
    /\ Runs(t)
    /\ dc_step[t] \in {"search", "select", "init"} /\ InPlan(t)
    /\ PlanOf(t)[dc_idx[t]].action = "schedule"
    /\ LET p == PlanOf(t)[dc_idx[t]]
       IN  audit_log' =
              [audit_log EXCEPT
                  ![t] = Append(@, [event |-> SentEvent(dc_step[t]),
                                    job_id |-> p.job_id,
                                    details |-> Details(dc_step[t], p, dc_workloads[t])])]
    /\ dc_step' = [dc_step EXCEPT ![t] = StepAfter(@)]
    /\ UNCHANGED <<dc_idx, dc_workloads, dc_iter, dc_count, program, ORDERS,
                   callback_log, status_sent, agentVars, monitorVars, bidVars,
                   cycleVars, serviceVars>>

\* step 4.4: send_confirm, then the local order record
DecisionCycle_Confirm(t) ==
    /\ Runs(t)
    /\ dc_step[t] = "confirm" /\ InPlan(t)
    /\ LET p == PlanOf(t)[dc_idx[t]]
       IN  /\ audit_log' =
                 [audit_log EXCEPT
                     ![t] = Audit(Audit(@, SentEvent("confirm"), p.job_id),
                                  "order_created", p.job_id)]
           /\ ORDERS' = DictSet(ORDERS, p.job_id,
                                [order_id |-> p.job_id, job_id |-> p.job_id,
                                 window_id |-> p.window_id, status |-> "confirmed",
                                 price |-> p.price_per_kwh])
           /\ status_sent' = [status_sent EXCEPT ![p.job_id] = NoStatus]
    /\ dc_idx' = [dc_idx EXCEPT ![t] = @ + 1]
    /\ dc_step' = [dc_step EXCEPT ![t] = StepAfter(@)]
    /\ UNCHANGED <<dc_workloads, dc_iter, dc_count, program, callback_log,
                   agentVars, monitorVars, bidVars, cycleVars, serviceVars>>

RECURSIVE AuditEach(_, _, _)
AuditEach(log, event, orders) ==
    IF orders = <<>> THEN log
    ELSE AuditEach(Audit(log, event, Head(orders).order_id), event, Tail(orders))

\* step 6: one settlement record for every order in ORDERS
Settle(sent, orders) ==
    [o \in DOMAIN sent |->
        IF \E i \in DOMAIN orders : orders[i].order_id = o
        THEN [sent[o] EXCEPT !.settlement = @ + 1]
        ELSE sent[o]]

\* step 5, from iter(ORDERS.items()) to the first sleep: the first order is
\* started; without an order steps 5 and 6 have nothing to do
DecisionCycle_Monitor(t) ==
    /\ Runs(t)
    /\ dc_step[t] = "search" /\ dc_idx[t] = Len(PlanOf(t)) + 1
    /\ IF ORDERS = <<>>
       THEN /\ dc_idx' = [dc_idx EXCEPT ![t] = 0]
            /\ dc_step' = [dc_step EXCEPT ![t] = "idle"]
            /\ UNCHANGED <<dc_iter, audit_log, status_sent>>
       ELSE /\ dc_iter' = [dc_iter EXCEPT ![t] = [pos |-> 1, used |-> Len(ORDERS)]]
            /\ dc_step' = [dc_step EXCEPT ![t] = "monitor"]
            /\ status_sent' = SendStatus(status_sent, ORDERS[1].order_id, "started")
            /\ audit_log' = [audit_log EXCEPT
                                ![t] = Audit(@, "order_started", ORDERS[1].order_id)]
            /\ UNCHANGED dc_idx
    /\ UNCHANGED <<dc_workloads, dc_count, program, ORDERS, callback_log,
                   agentVars, monitorVars, bidVars, cycleVars, serviceVars>>

\* step 5 after the sleep: the order at hand is completed and the iterator
\* is asked for the next one, which it refuses (RuntimeError: dictionary
\* changed size during iteration) if ORDERS has another size than when the
\* loop began; after the last order step 6 settles every order
DecisionCycle_Complete(t) ==
    /\ Runs(t)
    /\ dc_step[t] = "monitor"
    /\ LET it == dc_iter[t]
           order_id == ORDERS[it.pos].order_id
           sent == SendStatus(status_sent, order_id, "completed")
           log == Audit(audit_log[t], "order_completed", order_id)
       IN  IF Len(ORDERS) # it.used
           THEN /\ dc_step' = [dc_step EXCEPT ![t] = "raised"]
                /\ dc_idx' = [dc_idx EXCEPT ![t] = 0]
                /\ dc_iter' = [dc_iter EXCEPT ![t] = NoIter]
                /\ status_sent' = sent
                /\ audit_log' = [audit_log EXCEPT ![t] = log]
           ELSE IF it.pos = it.used
           THEN /\ dc_step' = [dc_step EXCEPT ![t] = "idle"]
                /\ dc_idx' = [dc_idx EXCEPT ![t] = 0]
                /\ dc_iter' = [dc_iter EXCEPT ![t] = NoIter]
                /\ status_sent' = Settle(sent, ORDERS)
                /\ audit_log' = [audit_log EXCEPT
                                    ![t] = AuditEach(log, "settlement", ORDERS)]
           ELSE /\ dc_iter' = [dc_iter EXCEPT ![t].pos = @ + 1]
                /\ status_sent' = SendStatus(sent, ORDERS[it.pos + 1].order_id, "started")
                /\ audit_log' = [audit_log EXCEPT
                                    ![t] = Audit(log, "order_started",
                                                 ORDERS[it.pos + 1].order_id)]
                /\ UNCHANGED <<dc_step, dc_idx>>
    /\ UNCHANGED <<dc_workloads, dc_count, program, ORDERS, callback_log,
                   agentVars, monitorVars, bidVars, cycleVars, serviceVars>>

\* the order id of a callback: message.order.id, the id of a job's order or
\* any other, or a uuid4 when the message has none
CallbackOrderIds == (1..MaxWorkloads) \cup {MaxWorkloads + Len(callback_log) + 1}

\* a handler runs while every decision cycle is suspended
HandlerRuns == \A t \in Tasks : Suspended(t)

\* POST /on_init: the provisional order is stored under its id
on_init ==
    /\ HandlerRuns
    /\ Len(callback_log) < MaxCallbacks
    /\ \E order_id \in CallbackOrderIds :
          /\ callback_log' = Append(callback_log, [event |-> "on_init_received",
                                                   order_id |-> order_id])
          /\ ORDERS' = DictSet(ORDERS, order_id,
                               [order_id |-> order_id, status |-> "initiated",
                                body |-> order_id])
    /\ UNCHANGED <<dc_idx, dc_step, dc_workloads, dc_iter, dc_count, audit_log,
                   status_sent, program, agentVars, monitorVars, bidVars,
                   cycleVars, serviceVars>>

\* POST /on_confirm: the confirmed order is stored under its id
on_confirm ==
    /\ HandlerRuns
    /\ Len(callback_log) < MaxCallbacks
    /\ \E order_id \in CallbackOrderIds :
          /\ callback_log' = Append(callback_log, [event |-> "on_confirm_received",
                                                   order_id |-> order_id])
          /\ ORDERS' = DictSet(ORDERS, order_id,
                               [order_id |-> order_id, status |-> "confirmed",
                                order |-> order_id, body |-> order_id])
    /\ UNCHANGED <<dc_idx, dc_step, dc_workloads, dc_iter, dc_count, audit_log,
                   status_sent, program, agentVars, monitorVars, bidVars,
                   cycleVars, serviceVars>>

(***************************************************************************)
(* Jobs and grid data of the orchestration cycle                           *)
(*                                                                         *)
(* Hours count from the start of the cycle; prices are in units of 0.0001  *)
(* pounds per kWh, carbon in gCO2 per kWh, energy in kWh.                  *)
(***************************************************************************)
Regions == {"north", "south", "scotland"}
RegionOrder == <<"north", "south", "scotland">>
DefaultRegion == "south"
Hours == 0..(Horizon - 1)

\* the attribute draws of _generate_mock_jobs explored: an urgent job with a
\* preferred region, a long flexible job without one, a short flexible job
\* with a tight deadline (resource demands in the units of CapacityMaps)
JobKinds ==
    { [job_type |-> "batch_inference", priority |-> 9, can_defer |-> TRUE,
       flexibility_minutes |-> 60, preferred_region |-> "north",
       energy_kwh |-> 20, cpu_cores |-> 2, gpu_count |-> 1, memory_gb |-> 1,
       duration_hours |-> 1, earliest_start |-> 0, deadline |-> 2],
      [job_type |-> "training", priority |-> 5, can_defer |-> TRUE,
       flexibility_minutes |-> 240, preferred_region |-> None,
       energy_kwh |-> 100, cpu_cores |-> 2, gpu_count |-> 1, memory_gb |-> 2,
       duration_hours |-> 2, earliest_start |-> 0, deadline |-> 3],
      [job_type |-> "analytics", priority |-> 6, can_defer |-> TRUE,
       flexibility_minutes |-> 120, preferred_region |-> "scotland",
       energy_kwh |-> 30, cpu_cores |-> 1, gpu_count |-> 0, memory_gb |-> 1,
       duration_hours |-> 1, earliest_start |-> 0, deadline |-> 1] }

DefaultJob == CHOOSE k \in JobKinds : k.priority = 9

\* the job tables explored: the job types come round in turn, from any start
JobTypes == <<"batch_inference", "training", "analytics">>

JobTables ==
    { [j \in JobIds |->
          CHOOSE k \in JobKinds : k.job_type = JobTypes[((j + r) % Len(JobTypes)) + 1]] :
      r \in 1..Len(JobTypes) }

\* forecasts fetch_forecast may return: per region an hourly price and carbon
\* series over the horizon (hour h is element h + 1)
Series(a, b) == [h \in 1..Horizon |-> IF h = 1 THEN a ELSE b]

ForecastScenarios ==
    { [price |-> [r \in Regions |->
                    IF r = "north" THEN Series(1000, 1800) ELSE Series(1600, 1400)],
       carbon |-> [r \in Regions |->
                    IF r = "scotland" THEN Series(60, 50) ELSE Series(220, 180)]],
      [price |-> [r \in Regions |->
                    IF r = "scotland" THEN Series(1700, 900) ELSE Series(1500, 1500)],
       carbon |-> [r \in Regions |->
                    IF r = "scotland" THEN Series(40, 40) ELSE Series(200, 200)]] }

\* what get_capacity may return: available cpu / gpu / memory per region
Capacity(c, g, m) == [available_cpu |-> c, available_gpu |-> g, available_memory_gb |-> m]

CapacityMaps ==
    { [r \in Regions |-> Capacity(4, 2, 4)],
      [r \in Regions |-> IF r = "north" THEN Capacity(2, 1, 2) ELSE Capacity(3, 1, 3)] }

(***************************************************************************)
(* CarbonAwareForecaster._heuristic_forecast                               *)
(***************************************************************************)
RECURSIVE SumSeq(_, _, _)
SumSeq(s, from, to) ==
    IF from > to \/ from > Len(s) THEN 0
    ELSE s[from] + SumSeq(s, from + 1, to)

\* the windows in the order the two loops build them: region by region, hour
\* by hour, for hour in range(horizon - int(duration_hours))
BuiltWindows(job, horizon) ==
    LET n == Max(0, horizon - job.duration_hours)
    IN  [i \in 1..(3 * n) |->
            [region |-> RegionOrder[((i - 1) \div n) + 1],
             start_hour |-> (i - 1) % n]]

\* the composite score: (window_price / 0.15) * 0.5 + (window_carbon / 200) * 0.5
\* times 6000 * duration_hours, which is the same for every window of one job
Score(job, forecast, w) ==
    LET d == job.duration_hours
        price_sum == SumSeq(forecast.price[w.region], w.start_hour + 1, w.start_hour + d)
        carbon_sum == SumSeq(forecast.carbon[w.region], w.start_hour + 1, w.start_hour + d)
    IN  2 * price_sum + 15 * carbon_sum

\* windows.sort(key = score): a stable sort, then windows[:3]
RECURSIVE SortedPrefix(_, _, _, _, _)
SortedPrefix(job, forecast, built, left, k) ==
    IF k = 0 \/ left = {} THEN <<>>
    ELSE LET i == CHOOSE x \in left :
                      \A y \in left \ {x} :
                          \/ Score(job, forecast, built[x]) < Score(job, forecast, built[y])
                          \/ /\ Score(job, forecast, built[x]) = Score(job, forecast, built[y])
                             /\ x < y
         IN  <<built[i]>> \o SortedPrefix(job, forecast, built, left \ {i}, k - 1)

heuristic_forecast(job, forecast, horizon) ==
    LET built == BuiltWindows(job, horizon)
    IN  SortedPrefix(job, forecast, built, DOMAIN built, 3)

(***************************************************************************)
(* FlexibleScheduler.optimize: the schedule optimizer as the design        *)
(* describes it (partition, ordering, sequential reservation pass,         *)
(* retry and best-effort placement)                                        *)
(***************************************************************************)
IsImmediate(job) == ~job.can_defer \/ job.priority >= 9

PreferredOrDefault(job) ==
    IF job.preferred_region = None THEN DefaultRegion ELSE job.preferred_region

\* immediate jobs first, in input order; then the deferrable ones by
\* ascending flexibility, ties in input order
RECURSIVE ByFlexibility(_, _)
ByFlexibility(jobs, left) ==
    IF left = {} THEN <<>>
    ELSE LET i == CHOOSE x \in left :
                      \A y \in left \ {x} :
                          \/ job_table[jobs[x]].flexibility_minutes
                               < job_table[jobs[y]].flexibility_minutes
                          \/ /\ job_table[jobs[x]].flexibility_minutes
                                  = job_table[jobs[y]].flexibility_minutes
                             /\ x < y
         IN  <<jobs[i]>> \o ByFlexibility(jobs, left \ {i})

ReservationOrder(jobs) ==
    SelectSeq(jobs, LAMBDA j : IsImmediate(job_table[j]))
    \o ByFlexibility(jobs, {i \in DOMAIN jobs : ~IsImmediate(job_table[jobs[i]])})

\* the per-region, per-hour capacity table of one cycle
CapacityTable(capacity) == [r \in Regions |-> [h \in Hours |-> capacity[r]]]

WindowHours(job, w) == w.start_hour..(w.start_hour + job.duration_hours - 1)

Feasible(job, w, table) ==
    /\ w.start_hour >= job.earliest_start
    /\ w.start_hour + job.duration_hours <= job.deadline
    /\ \A h \in WindowHours(job, w) :
          /\ h \in Hours
          /\ table[w.region][h].available_cpu >= job.cpu_cores
          /\ table[w.region][h].available_gpu >= job.gpu_count
          /\ table[w.region][h].available_memory_gb >= job.memory_gb

Reserve(job, w, table) ==
    [table EXCEPT ![w.region] =
        [h \in Hours |->
            IF h \in WindowHours(job, w)
            THEN Capacity(@[h].available_cpu - job.cpu_cores,
                          @[h].available_gpu - job.gpu_count,
                          @[h].available_memory_gb - job.memory_gb)
            ELSE @[h]]]

\* price / carbon of a region at an hour, with the reference values when the
\* forecast has no entry
PriceAt(forecast, region, hour) ==
    IF region \in DOMAIN forecast.price /\ Len(forecast.price[region]) > hour
    THEN forecast.price[region][hour + 1] ELSE 1500

CarbonAt(forecast, region, hour) ==
    IF region \in DOMAIN forecast.carbon /\ Len(forecast.carbon[region]) > hour
    THEN forecast.carbon[region][hour + 1] ELSE 200

Assignment(j, region, start, forecast, best_effort) ==
    [job |-> j,
     start_time |-> start,
     region |-> region,
     cost |-> FMul(job_table[j].energy_kwh, PriceAt(forecast, region, start)),
     carbon |-> FMul(job_table[j].energy_kwh, CarbonAt(forecast, region, start)),
     p415_revenue |-> 0,
     baseline_cost |-> FMul(job_table[j].energy_kwh, 1500),
     baseline_carbon |-> FMul(job_table[j].energy_kwh, 250),
     best_effort |-> best_effort]

\* the windows tried for a job, in order: its ranked candidates, then its own
\* preferred region at its earliest start
TriedWindows(job, windows) ==
    (IF IsImmediate(job) THEN <<>> ELSE windows)
    \o <<[region |-> PreferredOrDefault(job), start_hour |-> job.earliest_start]>>

\* one step of the reservation pass: the first feasible window is reserved;
\* with none, the job is placed at once in its preferred region, best effort
PlaceJob(j, windows, forecast, table) ==
    LET job == job_table[j]
        tried == TriedWindows(job, windows)
        ok == {i \in DOMAIN tried : Feasible(job, tried[i], table)}
    IN  IF ok = {}
        THEN [assignment |-> Assignment(j, PreferredOrDefault(job), 0, forecast, TRUE),
              table |-> table]
        ELSE LET w == tried[CHOOSE i \in ok : \A k \in ok : i <= k]
             IN  [assignment |-> Assignment(j, w.region, w.start_hour, forecast, FALSE),
                  table |-> Reserve(job, w, table)]

RECURSIVE ReservationPass(_, _, _, _)
ReservationPass(order, windows, forecast, table) ==
    IF order = <<>> THEN <<>>
    ELSE LET placed == PlaceJob(Head(order), windows[Head(order)], forecast, table)
         IN  <<placed.assignment>>
             \o ReservationPass(Tail(order), windows, forecast, placed.table)

scheduler_optimize(jobs, windows, forecast, capacity) ==
    ReservationPass(ReservationOrder(jobs), windows, forecast, CapacityTable(capacity))

(***************************************************************************)
(* OrchestratorAgent.optimize and its FIFO fallback                        *)
(***************************************************************************)
\* one entry of the fallback schedule; now is what datetime.now() returns
FallbackEntry(j, forecast, now) ==
    LET region == PreferredOrDefault(job_table[j])
    IN  [job |-> j,
         start_time |-> 0,
         start_datetime |-> now,
         end_datetime |-> now,
         region |-> region,
         cost |-> FMul(job_table[j].energy_kwh, PriceAt(forecast, region, 0)),
         carbon |-> FMul(job_table[j].energy_kwh, CarbonAt(forecast, region, 0)),
         p415_revenue |-> 0,
         baseline_cost |-> FMul(job_table[j].energy_kwh, 1500),
         baseline_carbon |-> FMul(job_table[j].energy_kwh, 250),
         best_effort |-> FALSE]

\* a fallback that leaves out the last job of the list
fallback_schedule_drop_last(jobs, forecast, now) ==
    [k \in 1..(Len(jobs) - 1) |-> FallbackEntry(jobs[k], forecast, now)]

\* _fallback_schedule: FIFO, one entry per job of the list, in order
fallback_schedule(jobs, forecast, now) ==
    [k \in 1..Len(jobs) |-> FallbackEntry(jobs[k], forecast, now)]

\* step 2 of optimize: the flexible jobs get their ranked windows; a job whose
\* forecast raised gets none
PreferredWindows(jobs, forecast, forecast_failed) ==
    [j \in JobIds |->
        IF InSeq(j, jobs) /\ ~IsImmediate(job_table[j]) /\ j \notin forecast_failed
        THEN heuristic_forecast(job_table[j], forecast, Horizon)
        ELSE <<>>]

\* optimize: [] for no jobs; the scheduler's schedule; the fallback schedule
\* when the scheduler (or the summary printed after it) raises
optimize(jobs, forecast, capacity, forecast_failed, scheduler_raises, now) ==
    IF jobs = <<>> THEN <<>>
    ELSE IF scheduler_raises THEN fallback_schedule(jobs, forecast, now)
    ELSE scheduler_optimize(jobs, PreferredWindows(jobs, forecast, forecast_failed),
                            forecast, capacity)

(***************************************************************************)
(* OrchestratorAgent.run_cycle, step by step between its awaits            *)
(***************************************************************************)
NoForecast == [price |-> <<>>, carbon |-> <<>>]

\* AuditLogger.__init__: the in-memory totals
LoggerInit ==
    [total_cost_saved |-> 0, total_carbon_saved |-> 0, total_p415_revenue |-> 0,
     jobs_processed |-> 0, decisions_logged |-> 0, beckn_transactions_logged |-> 0]

NoLedgerCall == [op |-> "init", write_failed |-> FALSE, count |-> 0, returned |-> <<>>]

\* the clock, read in cycles: it has moved on by the next cycle
Now == cycle_count

CycleIdle ==
    /\ pc = "idle"
    /\ cycle_count = 0
    /\ total_jobs_processed = 0
    /\ total_cost_saved = 0
    /\ total_carbon_saved = 0
    /\ new_jobs = <<>>
    /\ grid_forecast = NoForecast
    /\ schedule = <<>>
    /\ used_fallback = FALSE
    /\ exec_idx = 0
    /\ txn_state = "none"
    /\ outcome = [j \in JobIds |-> "none"]
    /\ active_transactions = <<>>
    /\ decisions = <<>>
    /\ txn_log = <<>>
    /\ attempted = {}
    /\ transaction_id = 0
    /\ uuid_count = 0
    /\ requests = <<>>
    /\ stopped = FALSE
    /\ logger = LoggerInit
    /\ ledger_call = NoLedgerCall

CycleInit == job_table = [j \in JobIds |-> DefaultJob] /\ CycleIdle

\* the attributes the monitor will draw for each job it generates
CycleStart == job_table \in JobTables /\ CycleIdle

\* steps 1 and 2: count the cycle, fetch the pending jobs (new ones may have
\* arrived), return at once when there are none, else fetch the forecast
RunCycle_Fetch ==
    /\ pc = "idle"
    /\ cycle_count < MaxCycles
    /\ cycle_count' = cycle_count + 1
    /\ \E count \in 0..(MaxJobs - job_counter), forecast \in ForecastScenarios :
          LET m == get_pending_jobs(count)
          IN  /\ SetMonitor(m)
              /\ job_counter' = job_counter + count
              /\ IF m.pending_jobs = <<>>
                 THEN UNCHANGED <<pc, new_jobs, grid_forecast>>
                 ELSE /\ pc' = "optimize"
                      /\ new_jobs' = m.pending_jobs
                      /\ grid_forecast' = forecast
    /\ UNCHANGED <<job_table, total_jobs_processed, total_cost_saved,
                   total_carbon_saved, schedule, used_fallback,
                   exec_idx, txn_state, outcome, active_transactions, decisions,
                   txn_log, attempted, transaction_id, uuid_count, requests,
                   stopped, logger, ledger_call, bidVars, agentVars, dcVars,
                   serviceVars>>

\* step 3: optimize; an empty schedule ends the cycle
RunCycle_Optimize ==
    /\ pc = "optimize"
    /\ \E capacity \in CapacityMaps, forecast_failed \in SUBSET Range(new_jobs),
          scheduler_raises \in BOOLEAN :
          LET sch == optimize(new_jobs, grid_forecast, capacity, forecast_failed,
                              scheduler_raises, Now)
          IN  /\ schedule' = sch
              /\ used_fallback' = scheduler_raises
              /\ IF Len(sch) = 0
                 THEN pc' = "idle" /\ UNCHANGED <<exec_idx, txn_state>>
                 ELSE pc' = "execute" /\ exec_idx' = 1 /\ txn_state' = "created"
    /\ UNCHANGED <<job_table, cycle_count, total_jobs_processed, total_cost_saved,
                   total_carbon_saved, new_jobs,
                   grid_forecast, outcome, active_transactions, decisions,
                   txn_log, attempted, transaction_id, uuid_count, requests,
                   stopped, logger, ledger_call, monitorVars, bidVars, agentVars,
                   dcVars, serviceVars>>

\* update_job_status(job, st) for each job in turn; the first call that raises
\* ends the loop (the caller's try / except swallows it)
RECURSIVE UpdateAll(_, _, _)
UpdateAll(m, jobs, st) ==
    IF jobs = <<>> THEN m
    ELSE LET m1 == update_job_status(m, Head(jobs), st)
         IN  IF m1.raised THEN m1 ELSE UpdateAll(m1, Tail(jobs), st)

ScheduledJobs(sch) == [k \in 1..Len(sch) |-> sch[k].job]

\* an execute_schedule that marks no job
JobsToMark_none(sch, out) == <<>>
\* which jobs OrchestratorAgent.execute_schedule marks 'scheduled' once the
\* Beckn execution has returned
JobsToMark(sch, out) == ScheduledJobs(sch)

CurrentJob == schedule[exec_idx].job

InTransaction(st) ==
    pc = "execute" /\ exec_idx \in 1..Len(schedule) /\ txn_state = st

\* a loop that gives the rest of the schedule up when a transaction fails
NextIndex_stop(idx, how) == IF how = "aborted" THEN Len(schedule) + 1 ELSE idx + 1

\* the for loop of BecknOrchestrator.execute_schedule: however the job's
\* transaction ended (an exception is caught per job), the next job is taken up
NextIndex(idx, how) == idx + 1

\* _execute_single_job ends (confirmed, or given up) and the loop of
\* BecknOrchestrator.execute_schedule moves on; after the last job the
\* orchestrator marks the jobs of the schedule and goes on to the audit step
EndTransaction(how) ==
    LET out == [outcome EXCEPT ![CurrentJob] = how]
        next == NextIndex(exec_idx, how)
    IN  /\ outcome' = out
        /\ exec_idx' = next
        /\ txn_state' = "created"
        /\ txn_log' = <<>>
        /\ IF next > Len(schedule)
           THEN /\ SetMonitor(UpdateAll(Monitor, JobsToMark(schedule, out), "scheduled"))
                /\ pc' = "record"
           ELSE UNCHANGED <<pending_jobs, scheduled_jobs, running_jobs,
                            completed_jobs, failed_jobs, status, raised, pc>>

\* a transaction that takes itself for initialized after any response
NextState_skip(st) ==
    /\ txn_state' = "initialized"
    /\ UNCHANGED <<pending_jobs, scheduled_jobs, running_jobs, completed_jobs,
                   failed_jobs, status, raised, pc, exec_idx, outcome>>

\* the response is in, the transaction goes on to its next request
NextState(st) ==
    /\ txn_state' = st
    /\ UNCHANGED <<pending_jobs, scheduled_jobs, running_jobs, completed_jobs,
                   failed_jobs, status, raised, pc, exec_idx, outcome>>

\* what a request may come back with: a response, an error response (a status
\* other than 200), or an exception (transport failure, timeout)
Results == {"ok", "error", "exception"}

\* the response of a request has come back and the transaction is still on
Observed(step, res) == txn_log' = Append(txn_log, [step |-> step, result |-> res])

\* uuid.uuid4(): an identifier no earlier call has returned (the n-th call
\* returns n)
uuid4(n) == n + 1

\* a context that gives every action of a transaction an id of its own
build_context_per_action(action, tid) ==
    [action |-> action,
     transaction_id |-> IF action = "search" THEN tid ELSE tid + MaxJobs * MaxCycles + 1]

\* _build_context: the context of a request carries the transaction id it is
\* given (the message id, drawn anew for each request, is left out)
build_context(action, tid) == [action |-> action, transaction_id |-> tid]

\* BAPClient.search / select / init / confirm: the request goes out with the
\* context built for it
SendRequest(action, tid) ==
    requests' = Append(requests, [context |-> build_context(action, tid),
                                  job |-> CurrentJob])

\* search: an error response or an exception gives the job up
BecknSearch ==
    /\ InTransaction("created")
    /\ attempted' = attempted \cup {CurrentJob}
    /\ transaction_id' = uuid4(uuid_count)
    /\ uuid_count' = uuid_count + 1
    /\ SendRequest("search", uuid4(uuid_count))
    /\ \E res \in Results :
          IF res = "ok"
          THEN Observed("search", res) /\ NextState("searched")
          ELSE EndTransaction("aborted")
    /\ UNCHANGED <<job_table, cycle_count, total_jobs_processed, total_cost_saved,
                   total_carbon_saved, new_jobs,
                   grid_forecast, schedule, used_fallback, active_transactions,
                   decisions, stopped, logger, ledger_call, job_counter, bidVars,
                   agentVars, dcVars, serviceVars>>

\* select: the response is not looked at
BecknSelect ==
    /\ InTransaction("searched")
    /\ SendRequest("select", transaction_id)
    /\ \E res \in Results :
          IF res = "exception"
          THEN EndTransaction("aborted")
          ELSE Observed("select", res) /\ NextState("selected")
    /\ UNCHANGED <<job_table, cycle_count, total_jobs_processed, total_cost_saved,
                   total_carbon_saved, new_jobs,
                   grid_forecast, schedule, used_fallback, active_transactions,
                   decisions, attempted, transaction_id, uuid_count, stopped,
                   logger, ledger_call, job_counter, bidVars, agentVars, dcVars,
                   serviceVars>>

\* init: the response is not looked at
BecknInit ==
    /\ InTransaction("selected")
    /\ SendRequest("init", transaction_id)
    /\ \E res \in Results :
          IF res = "exception"
          THEN EndTransaction("aborted")
          ELSE Observed("init", res) /\ NextState("initialized")
    /\ UNCHANGED <<job_table, cycle_count, total_jobs_processed, total_cost_saved,
                   total_carbon_saved, new_jobs,
                   grid_forecast, schedule, used_fallback, active_transactions,
                   decisions, attempted, transaction_id, uuid_count, stopped,
                   logger, ledger_call, job_counter, bidVars, agentVars, dcVars,
                   serviceVars>>

\* f"order_{transaction_id[:12]}": the head of a uuid, taken to be as unique
\* as the uuid
OrderId(tid) == <<"order", tid>>

\* confirm: a response without error records the order as CONFIRMED
BecknConfirm ==
    /\ InTransaction("initialized")
    /\ SendRequest("confirm", transaction_id)
    /\ \E res \in Results :
          IF res = "ok"
          THEN /\ active_transactions' =
                     Append(active_transactions,
                            [order_id |-> OrderId(transaction_id),
                             job |-> CurrentJob,
                             transaction_id |-> transaction_id,
                             scheduled |-> schedule[exec_idx],
                             status |-> "CONFIRMED"])
               /\ EndTransaction("confirmed")
          ELSE /\ UNCHANGED active_transactions
               /\ EndTransaction("aborted")
    /\ UNCHANGED <<job_table, cycle_count, total_jobs_processed, total_cost_saved,
                   total_carbon_saved, new_jobs,
                   grid_forecast, schedule, used_fallback, decisions, attempted,
                   transaction_id, uuid_count, stopped, logger, ledger_call,
                   job_counter, bidVars, agentVars, dcVars, serviceVars>>

\* json.dumps(data, sort_keys = True): the items of the record, in key order
SortedKeys ==
    <<"decision_id", "hash", "jobs_count", "jobs_summary", "metrics", "schedule",
      "scheduled_count">>

Serialize(data) ==
    LET ks == SelectSeq(SortedKeys, LAMBDA k : k \in DOMAIN data)
    IN  [i \in 1..Len(ks) |-> <<ks[i], data[ks[i]]>>]

\* a digest that takes the decision id alone
calculate_hash_id_only(data) == <<"sha256", <<<<"decision_id", data.decision_id>>>>>>

\* _calculate_hash: SHA-256 of the sorted serialization; the digest is kept
\* as the text it digests, so that two digests are equal only for equal texts
calculate_hash(data) == <<"sha256", Serialize(data)>>

\* sum(s.get(field, 0) for s in schedule): the items are added one by one,
\* from the left, each addition rounded
RECURSIVE SumOf(_, _)
SumOf(sch, field) ==
    IF sch = <<>> THEN 0
    ELSE FAdd(SumOf(SubSeq(sch, 1, Len(sch) - 1), field), sch[Len(sch)][field])

\* the metrics log_decision computes from the schedule
Metrics(sch) ==
    [total_cost |-> SumOf(sch, "cost"),
     total_carbon |-> SumOf(sch, "carbon"),
     total_p415_revenue |-> SumOf(sch, "p415_revenue"),
     cost_savings |-> FSub(SumOf(sch, "baseline_cost"), SumOf(sch, "cost")),
     carbon_savings |-> FSub(SumOf(sch, "baseline_carbon"), SumOf(sch, "carbon"))]

\* the decision entry log_decision builds: the counts, the input jobs, the
\* schedule, the metrics, and the hash of all of these
DecisionEntry(jobs, sch, logged) ==
    LET entry == [decision_id |-> logged,
                  jobs_count |-> Len(jobs),
                  scheduled_count |-> Len(sch),
                  jobs_summary |-> jobs,
                  schedule |-> ScheduledJobs(sch),
                  metrics |-> Metrics(sch)]
    IN  [k \in DOMAIN entry \cup {"hash"} |->
            IF k = "hash" THEN calculate_hash(entry) ELSE entry[k]]

\* the totals after one more decision
AddToTotals(lg, sch) ==
    [lg EXCEPT !.total_cost_saved = FAdd(@, Metrics(sch).cost_savings),
               !.total_carbon_saved = FAdd(@, Metrics(sch).carbon_savings),
               !.total_p415_revenue = FAdd(@, Metrics(sch).total_p415_revenue),
               !.jobs_processed = @ + Len(sch),
               !.decisions_logged = @ + 1]

\* a log_decision that adds to the totals before it writes
log_decision_totals_first(lg, ledger, jobs, sch, write_fails) ==
    [logger |-> AddToTotals(lg, sch),
     decisions |-> IF write_fails THEN ledger
                   ELSE Append(ledger, DecisionEntry(jobs, sch, lg.decisions_logged)),
     raised |-> write_fails]

\* log_decision: the entry is built and written (a failed write raises and
\* nothing after it runs), then the totals are added to; the summary printed
\* last divides by the baseline totals and raises when one of them is 0
log_decision(lg, ledger, jobs, sch, write_fails) ==
    IF write_fails
    THEN [logger |-> lg, decisions |-> ledger, raised |-> TRUE]
    ELSE [logger |-> AddToTotals(lg, sch),
          decisions |-> Append(ledger, DecisionEntry(jobs, sch, lg.decisions_logged)),
          raised |-> SumOf(sch, "baseline_cost") = 0 \/ SumOf(sch, "baseline_carbon") = 0]

\* sum(s.get(base, 0) - s[field] for s in schedule): run_cycle's own figure
\* of what the schedule saved, the differences added one by one
RECURSIVE Saved(_, _, _)
Saved(sch, base, field) ==
    IF sch = <<>> THEN 0
    ELSE FAdd(Saved(SubSeq(sch, 1, Len(sch) - 1), base, field),
              FSub(sch[Len(sch)][base], sch[Len(sch)][field]))
\* step 5: log_decision appends the decision record, then the orchestrator
\* adds to its own counters; a failed write raises, and run_cycle's handler
\* ends the cycle.  Either way run_cycle returns and its locals are gone.
RunCycle_LogDecision ==
    /\ pc = "record"
    /\ \E write_fails \in BOOLEAN :
          LET r == log_decision(logger, decisions, new_jobs, schedule, write_fails)
          IN  /\ decisions' = r.decisions
              /\ logger' = r.logger
              /\ total_jobs_processed' =
                    IF r.raised THEN total_jobs_processed
                    ELSE total_jobs_processed + Len(schedule)
              /\ total_cost_saved' =
                    IF r.raised THEN total_cost_saved
                    ELSE FAdd(total_cost_saved, Saved(schedule, "baseline_cost", "cost"))
              /\ total_carbon_saved' =
                    IF r.raised THEN total_carbon_saved
                    ELSE FAdd(total_carbon_saved,
                              Saved(schedule, "baseline_carbon", "carbon"))
              /\ ledger_call' = [op |-> "log_decision", write_failed |-> write_fails,
                                 count |-> 0, returned |-> <<>>]
    /\ pc' = "idle"
    /\ new_jobs' = <<>>
    /\ grid_forecast' = NoForecast
    /\ schedule' = <<>>
    /\ used_fallback' = FALSE
    /\ exec_idx' = 0
    /\ txn_state' = "none"
    /\ txn_log' = <<>>
    /\ attempted' = {}
    /\ transaction_id' = 0
    /\ requests' = <<>>
    /\ UNCHANGED <<job_table, cycle_count, outcome, active_transactions,
                   uuid_count, stopped, monitorVars, bidVars, agentVars, dcVars,
                   serviceVars>>

\* the interrupt signal: signal_handler calls sys.exit(0), and the SystemExit
\* it raises ends the process wherever the loop stands (run_cycle catches
\* Exception only)
Interrupt ==
    /\ ~stopped
    /\ stopped' = TRUE
    /\ UNCHANGED <<job_table, pc, cycle_count, total_jobs_processed, total_cost_saved,
                   total_carbon_saved, new_jobs,
                   grid_forecast, schedule, used_fallback, exec_idx, txn_state,
                   outcome, active_transactions, decisions, txn_log, attempted,
                   transaction_id, uuid_count, requests, logger, ledger_call,
                   monitorVars, bidVars, agentVars, dcVars, serviceVars>>

(***************************************************************************)
(* AuditLogger on its own: log_decision and get_recent_decisions           *)
(***************************************************************************)
MaxLedger == 3      \* records in the decision ledger explored

\* the job lists log_decision is called with
LedgerJobLists == {<<>>} \cup { [i \in 1..k |-> i] : k \in 1..MaxJobs }

\* lines[-count:] for count >= 0: -0 is 0, so count = 0 takes the whole list
SliceFromEnd(lines, count) ==
    IF count = 0 THEN lines
    ELSE SubSeq(lines, Max(1, Len(lines) - count + 1), Len(lines))

\* get_recent_decisions: the last lines of the decision log, parsed (every
\* line is the JSON text of a record of JSON values, which parses back to it)
get_recent_decisions(ledger, count) == SliceFromEnd(ledger, count)

\* log_decision called with a job list and a schedule for some of its jobs
LogDecision ==
    /\ Len(decisions) < MaxLedger
    /\ \E jobs \in LedgerJobLists, forecast \in ForecastScenarios,
          write_fails \in BOOLEAN :
          \E k \in 0..Len(jobs) :
             LET sch == fallback_schedule(SubSeq(jobs, 1, k), forecast, 0)
                 r == log_decision(logger, decisions, jobs, sch, write_fails)
             IN  /\ decisions' = r.decisions
                 /\ logger' = r.logger
                 /\ ledger_call' = [op |-> "log_decision",
                                    write_failed |-> write_fails,
                                    count |-> 0, returned |-> <<>>]
    /\ UNCHANGED <<job_table, pc, cycle_count, total_jobs_processed, total_cost_saved,
                   total_carbon_saved, new_jobs,
                   grid_forecast, schedule, used_fallback, exec_idx, txn_state,
                   outcome, active_transactions, txn_log, attempted,
                   transaction_id, uuid_count, requests, stopped,
                   monitorVars, bidVars, agentVars, dcVars, serviceVars>>

GetRecentDecisions ==
    /\ \E count \in 0..(MaxLedger + 1) :
          ledger_call' = [op |-> "get_recent_decisions", write_failed |-> FALSE,
                          count |-> count,
                          returned |-> get_recent_decisions(decisions, count)]
    /\ UNCHANGED <<job_table, pc, cycle_count, total_jobs_processed, total_cost_saved,
                   total_carbon_saved, new_jobs,
                   grid_forecast, schedule, used_fallback, exec_idx, txn_state,
                   outcome, active_transactions, decisions, txn_log, attempted,
                   transaction_id, uuid_count, requests, stopped, logger,
                   monitorVars, bidVars, agentVars, dcVars, serviceVars>>

(***************************************************************************)
(* CarbonAwareForecaster.forecast_optimal_windows and its advisory path    *)
(***************************************************************************)
SeriesLast(a, b) == [h \in 1..Horizon |-> IF h = Horizon THEN b ELSE a]

\* the forecasts the forecaster is asked about: the scenarios of the cycle and
\* one whose last hour is the cheapest and the cleanest in every region
ForecasterForecasts ==
    ForecastScenarios
    \cup { [price |-> [r \in Regions |-> SeriesLast(1500, 900)],
            carbon |-> [r \in Regions |-> SeriesLast(200, 100)]] }

\* the windows the advisory model may name, each with the score it states
AdvisoryWindows ==
    { [region |-> "scotland", start_hour |-> 0, score |-> 65],
      [region |-> "north", start_hour |-> 1, score |-> 40] }

MaxAdvisory == 4    \* windows in one advisory answer

\* result['optimal_windows']: any list the model chose to write
AdvisoryAnswers == UNION { [1..k -> AdvisoryWindows] : k \in 0..MaxAdvisory }

NoReply == [kind |-> "none", windows |-> <<>>]

AdvisoryReplyKinds ==
    { [kind |-> "error", windows |-> <<>>] }
    \cup { [kind |-> "answer", windows |-> a] : a \in AdvisoryAnswers }

ForecasterIdle ==
    fc_call = [pc |-> "idle", job |-> DefaultJob, forecast |-> NoForecast,
               reply |-> NoReply, windows |-> <<>>, path |-> "none"]

\* _gpt4_forecast after its await: the parsed answer as it came, or the
\* heuristic's list when the call (or the parsing) raised
gpt4_forecast(job, forecast, horizon, reply) ==
    IF reply.kind = "error" THEN heuristic_forecast(job, forecast, horizon)
    ELSE reply.windows

\* forecast_optimal_windows is called: without use_gpt4 it returns the
\* heuristic's list; with it, the advisory request goes out and is awaited
ForecastOptimalWindows ==
    /\ fc_call.pc \in {"idle", "returned"}
    /\ \E job \in JobKinds, forecast \in ForecasterForecasts :
          fc_call' =
             IF use_gpt4
             THEN [pc |-> "awaiting", job |-> job, forecast |-> forecast,
                   reply |-> NoReply, windows |-> <<>>, path |-> "none"]
             ELSE [pc |-> "returned", job |-> job, forecast |-> forecast,
                   reply |-> NoReply,
                   windows |-> heuristic_forecast(job, forecast, Horizon),
                   path |-> "heuristic"]
    /\ UNCHANGED <<use_gpt4, ingestorVars, monitorVars, bidVars, agentVars,
                   cycleVars, dcVars>>

\* the advisory source answers, or its call raises; the await at
\* ChatCompletion.acreate carries no timeout, so until one of the two happens
\* the coroutine stays where it is
AdvisoryReplies ==
    /\ fc_call.pc = "awaiting"
    /\ fc_call.reply = NoReply
    /\ \E reply \in AdvisoryReplyKinds : fc_call' = [fc_call EXCEPT !.reply = reply]
    /\ UNCHANGED <<use_gpt4, ingestorVars, monitorVars, bidVars, agentVars,
                   cycleVars, dcVars>>

\* the await is over and _gpt4_forecast returns
Gpt4Forecast_Return ==
    /\ fc_call.pc = "awaiting"
    /\ fc_call.reply # NoReply
    /\ fc_call' =
          [fc_call EXCEPT
              !.pc = "returned",
              !.windows = gpt4_forecast(fc_call.job, fc_call.forecast, Horizon,
                                        fc_call.reply),
              !.path = IF fc_call.reply.kind = "error" THEN "fallback"
                                                       ELSE "advisory"]
    /\ UNCHANGED <<use_gpt4, ingestorVars, monitorVars, bidVars, agentVars,
                   cycleVars, dcVars>>

(***************************************************************************)
(* GridDataIngestor.fetch_forecast                                         *)
(***************************************************************************)
\* what the carbon and the price client may return, and the event lists
CarbonData == {f.carbon : f \in ForecastScenarios}
PriceData == {f.price : f \in ForecastScenarios}
EventLists ==
    { <<>>,
      <<[time |-> 0, region |-> "north", product |-> "DC", duration_minutes |-> 30]>> }

\* what _generate_mock_carbon and _generate_mock_prices may draw
MockCarbon == { [r \in Regions |-> Series(150, 210)], [r \in Regions |-> Series(120, 240)] }
MockPrices == { [r \in Regions |-> Series(1200, 2600)], [r \in Regions |-> Series(900, 2000)] }

\* the horizons fetch_forecast is called with
Horizons == {Horizon - 1, Horizon}

\* the clients and the mock generators return, per region, a list of
\* horizon_hours values
OverHorizon(D, horizon_hours) ==
    { [r \in Regions |-> SubSeq(d[r], 1, horizon_hours)] : d \in D }

\* one task of the gather with return_exceptions = True: its data, or the
\* exception it raised
Raised == [outcome |-> "raised", data |-> <<>>]
NotCalled == [outcome |-> "not_called", data |-> <<>>]
SourceResults(D) == {Raised} \cup { [outcome |-> "returned", data |-> d] : d \in D }

\* _calculate_average: the mean over all regions and hours, kept as the
\* fraction <<sum, count>>
calculate_average(data) ==
    <<SumSeq(data["north"], 1, Len(data["north"]))
         + SumSeq(data["south"], 1, Len(data["south"]))
         + SumSeq(data["scotland"], 1, Len(data["scotland"])),
      Len(data["north"]) + Len(data["south"]) + Len(data["scotland"])>>

\* _find_min_hour: per region the first hour that holds the minimum
find_min_hour(data) ==
    [r \in Regions |->
        LET h == CHOOSE x \in 1..Len(data[r]) :
                    /\ \A y \in 1..Len(data[r]) : data[r][x] <= data[r][y]
                    /\ \A y \in 1..(x - 1) : data[r][y] > data[r][x]
        IN  [hour |-> h - 1, value |-> data[r][h]]]

BuildForecast(carbon_data, price_data, p415_events, horizon_hours) ==
    [price |-> price_data,
     carbon |-> carbon_data,
     p415_events |-> p415_events,
     avg_price |-> calculate_average(price_data),
     avg_carbon |-> calculate_average(carbon_data),
     min_carbon_hour |-> find_min_hour(carbon_data),
     min_price_hour |-> find_min_hour(price_data),
     horizon_hours |-> horizon_hours]

\* a fetch that gives up every source's data as soon as one source fails
fetch_forecast_all_mock(carbon, price, p415, mock_carbon, mock_price, horizon_hours) ==
    IF "raised" \in {carbon.outcome, price.outcome, p415.outcome}
    THEN BuildForecast(mock_carbon, mock_price, <<>>, horizon_hours)
    ELSE BuildForecast(carbon.data, price.data, p415.data, horizon_hours)

\* fetch_forecast past the cache test: each result that is an exception is
\* replaced by its own fallback, the others are taken as they came
fetch_forecast(carbon, price, p415, mock_carbon, mock_price, horizon_hours) ==
    BuildForecast(IF carbon.outcome = "raised" THEN mock_carbon ELSE carbon.data,
                  IF price.outcome = "raised" THEN mock_price ELSE price.data,
                  IF p415.outcome = "raised" THEN <<>> ELSE p415.data,
                  horizon_hours)

IngestorIdle ==
    /\ last_forecast = <<>>
    /\ fetch_call = [op |-> "init", horizon_hours |-> 0,
                     cache_hit |-> FALSE, carbon |-> NotCalled,
                     price |-> NotCalled, p415 |-> NotCalled,
                     mock_carbon |-> <<>>, mock_price |-> <<>>, forecast |-> <<>>]

\* _is_cache_valid: there is a cached forecast and it is younger than
\* cache_duration
is_cache_valid(cache, cache_expired) == cache # <<>> /\ ~cache_expired

\* fetch_forecast: the cached forecast while it is valid; else the three
\* sources are gathered and the result is cached
FetchForecast ==
    /\ \E horizon_hours \in Horizons, cache_expired \in BOOLEAN :
       \E carbon \in SourceResults(OverHorizon(CarbonData, horizon_hours)),
          price \in SourceResults(OverHorizon(PriceData, horizon_hours)),
          p415 \in SourceResults(EventLists),
          mock_carbon \in OverHorizon(MockCarbon, horizon_hours),
          mock_price \in OverHorizon(MockPrices, horizon_hours) :
          IF is_cache_valid(last_forecast, cache_expired)
          THEN /\ fetch_call' =
                     [op |-> "fetch_forecast", horizon_hours |-> horizon_hours,
                      cache_hit |-> TRUE,
                      carbon |-> NotCalled, price |-> NotCalled, p415 |-> NotCalled,
                      mock_carbon |-> <<>>, mock_price |-> <<>>,
                      forecast |-> last_forecast]
               /\ UNCHANGED last_forecast
          ELSE LET forecast == fetch_forecast(carbon, price, p415, mock_carbon,
                                              mock_price, horizon_hours)
               IN  /\ fetch_call' =
                         [op |-> "fetch_forecast", horizon_hours |-> horizon_hours,
                          cache_hit |-> FALSE,
                          carbon |-> carbon, price |-> price, p415 |-> p415,
                          mock_carbon |-> mock_carbon, mock_price |-> mock_price,
                          forecast |-> <<forecast>>]
                   /\ last_forecast' = <<forecast>>
    /\ UNCHANGED <<forecasterVars, monitorVars, bidVars, agentVars, cycleVars,
                   dcVars>>

ServicesIdle == use_gpt4 = FALSE /\ ForecasterIdle /\ IngestorIdle

(***************************************************************************)
(* Specifications                                                          *)
(***************************************************************************)
\* the monitor under arbitrary calls of its two mutators
InitMonitor ==
    MonitorInit /\ BidInit /\ AgentInit /\ CycleInit /\ DecisionIdle
        /\ ServicesIdle /\ program = "orchestrator"
NextMonitor == GetPendingJobs \/ UpdateJobStatus
SpecMonitor == InitMonitor /\ [][NextMonitor]_vars

\* the bid engine under arbitrary calls
InitBid ==
    MonitorInit /\ BidConstruct /\ AgentInit /\ CycleInit /\ DecisionIdle
        /\ ServicesIdle /\ program = "orchestrator"
NextBid == CalculateFlexibilityValue \/ CreateBid
SpecBid == InitBid /\ [][NextBid]_vars

\* the optimizer of the BAP agent under arbitrary workload lists
InitAgent ==
    MonitorInit /\ BidInit /\ AgentStart /\ CycleInit /\ DecisionIdle
        /\ ServicesIdle /\ program = "agent"
NextAgent == SubmitWorkloads
SpecAgent == InitAgent /\ [][NextAgent]_vars

\* the orchestration loop: run_cycle after run_cycle
InitCycle ==
    MonitorInit /\ BidInit /\ AgentInit /\ CycleStart /\ DecisionIdle
        /\ ServicesIdle /\ program = "orchestrator"
NextCycle ==
    \/ RunCycle_Fetch
    \/ RunCycle_Optimize
    \/ BecknSearch
    \/ BecknSelect
    \/ BecknInit
    \/ BecknConfirm
    \/ RunCycle_LogDecision
SpecCycle == InitCycle /\ [][NextCycle]_vars

\* the orchestration loop, run on: the main loop calls run_cycle again and
\* again, and every request and every ledger write of a cycle returns
FairCycle ==
    /\ SpecCycle
    /\ WF_vars(RunCycle_Fetch)
    /\ WF_vars(BecknSearch)
    /\ WF_vars(BecknSelect)
    /\ WF_vars(BecknInit)
    /\ WF_vars(BecknConfirm)
    /\ WF_vars(RunCycle_LogDecision)

\* the window forecaster under arbitrary calls, with or without its advisory
\* path
InitForecaster ==
    MonitorInit /\ BidInit /\ AgentInit /\ CycleInit /\ DecisionIdle
        /\ program = "orchestrator"
        /\ use_gpt4 \in BOOLEAN /\ ForecasterIdle /\ IngestorIdle
NextForecaster == ForecastOptimalWindows \/ AdvisoryReplies \/ Gpt4Forecast_Return
SpecForecaster == InitForecaster /\ [][NextForecaster]_vars

\* the forecaster's own steps are taken; the advisory source owes no answer
FairForecaster == SpecForecaster /\ WF_vars(Gpt4Forecast_Return)

\* the grid data ingestor under arbitrary source results
InitIngestor ==
    MonitorInit /\ BidInit /\ AgentInit /\ CycleInit /\ DecisionIdle
        /\ ServicesIdle /\ program = "orchestrator"
NextIngestor == FetchForecast
SpecIngestor == InitIngestor /\ [][NextIngestor]_vars

\* the control loop of main with its interrupt signal
NextMain ==
    \/ ~stopped /\ NextCycle
    \/ Interrupt
SpecMain == InitCycle /\ [][NextMain]_vars

\* the audit logger under arbitrary calls
InitLedger ==
    MonitorInit /\ BidInit /\ AgentInit /\ CycleInit /\ DecisionIdle
        /\ ServicesIdle /\ program = "orchestrator"
NextLedger == LogDecision \/ GetRecentDecisions
SpecLedger == InitLedger /\ [][NextLedger]_vars

\* the decision cycle of the BAP agent, request after request
NextDecision(t) ==
    \/ DecisionCycle_Plan(t)
    \/ DecisionCycle_Defer(t)
    \/ DecisionCycle_Send(t)
    \/ DecisionCycle_Confirm(t)
    \/ DecisionCycle_Monitor(t)
    \/ DecisionCycle_Complete(t)

\* the two programs that speak the protocol: a run is a run of one of them
InitProtocol ==
    MonitorInit /\ BidInit /\ AgentInit /\ CycleInit /\ DecisionIdle
        /\ ServicesIdle /\ program \in {"orchestrator", "agent"}
NextProtocol ==
    \/ program = "orchestrator" /\ NextCycle
    \/ program = "agent" /\ NextDecision(1)
SpecProtocol == InitProtocol /\ [][NextProtocol]_vars

\* the BAP agent as a server: the decision cycles that submit_workloads
\* starts as background tasks, and the callbacks of the counterparty
InitOrders ==
    MonitorInit /\ BidInit /\ AgentInit /\ CycleInit /\ DecisionIdle
        /\ ServicesIdle /\ program = "agent"
NextOrders ==
    \/ \E t \in Tasks : NextDecision(t)
    \/ on_init
    \/ on_confirm
SpecOrders == InitOrders /\ [][NextOrders]_vars

(***************************************************************************)
(* Claims: bid eligibility and value (SpecBid)                             *)
(***************************************************************************)
Called == bid_call.op # "init"

\* the event would pay a job that is eligible: power, price and duration are
\* all positive and the platform does not keep everything
Paying(job, event) ==
    /\ event.product \in Products
    /\ job.power_mw > 0
    /\ Get(event, "clearing_price", 0) > 0
    /\ Get(event, "duration_minutes", 30) > 0
    /\ revenue_share < 100

\* C5 (as stated): a job with can_defer = false never gets a positive value,
\* for any product and whatever its can_interrupt flag is.
C5_NoDeferNoValue ==
    (Called /\ ~bid_call.job.can_defer) => bid_call.value <= 0

\* C5 (amended): a job with can_defer = false gets no positive value for the
\* DM and DR products, nor for DC when it cannot interrupt; the only positive
\* value it can get is for DC with can_interrupt = true.
C5_NoDeferNoValueUnlessInterruptDC ==
    (Called /\ ~bid_call.job.can_defer /\ bid_call.value > 0)
        => (bid_call.event.product = "DC" /\ bid_call.job.can_interrupt)

C5_Witness ==
    /\ Called
    /\ ~bid_call.job.can_defer
    /\ bid_call.job.can_interrupt
    /\ bid_call.event.product \in {"DM", "DR"}
    /\ bid_call.job.flexibility_minutes >= 5
    /\ Paying(bid_call.job, bid_call.event)
    /\ bid_call.value = 0

\* C6: a job with can_interrupt = false gets value 0 for every DC event and
\* create_bid creates no bid for it, whatever can_defer and
\* flexibility_minutes are.
C6_NoInterruptNoDC ==
    /\ (Called /\ ~bid_call.job.can_interrupt /\ bid_call.event.product = "DC")
          => (bid_call.value = 0 /\ bid_call.bid = <<>>)
    /\ ~bid_job.can_interrupt
          => \A i \in 1..Len(active_bids) : active_bids[i].product # "DC"

C6_Witness ==
    /\ bid_call.op = "create_bid"
    /\ ~bid_call.job.can_interrupt
    /\ bid_call.job.can_defer
    /\ bid_call.job.flexibility_minutes >= 5
    /\ bid_call.event.product = "DC"
    /\ Paying(bid_call.job, bid_call.event)
    /\ bid_call.bid = <<>>
    /\ Len(active_bids) > 0

\* eligibility and multipliers as the valuator's contract states them
ContractEligible(job, product) ==
    \/ product = "DC" /\ job.can_interrupt
    \/ product = "DM" /\ job.can_defer /\ job.flexibility_minutes >= 5
    \/ product = "DR" /\ job.can_defer

ContractMultiplier(product) ==
    IF product = "DC" THEN 8 ELSE IF product = "DM" THEN 5 ELSE 3

\* C7: for an eligible job/event pair the value is
\* clearing_price * power_mw * (duration_minutes / 60) * multiplier * (1 - share)
\* with multipliers 0.8 / 0.5 / 0.3; a DC event at price 150 for 30 minutes
\* against a 2 MW interruptible job yields 108 at the 10% share.
C7_ValueFormula ==
    (Called /\ ContractEligible(bid_call.job, bid_call.event.product)) =>
        /\ bid_call.value =
              Get(bid_call.event, "clearing_price", 0) * bid_call.job.power_mw
              * Get(bid_call.event, "duration_minutes", 30)
              * ContractMultiplier(bid_call.event.product) * (100 - revenue_share)
        /\ ( /\ bid_call.event.product = "DC"
             /\ Get(bid_call.event, "clearing_price", 0) = 150
             /\ Get(bid_call.event, "duration_minutes", 30) = 30
             /\ bid_call.job.power_mw = 2
             /\ revenue_share = 10 )
           => bid_call.value = 108 * ValueScale

C7_Witness ==
    /\ bid_call.op = "calculate_flexibility_value"
    /\ bid_call.event.product = "DM"
    /\ bid_call.job.can_defer
    /\ bid_call.job.flexibility_minutes >= 5
    /\ bid_call.job.power_mw = 2
    /\ bid_call.event.clearing_price = 150
    /\ bid_call.event.duration_minutes = 60
    /\ revenue_share = 50
    /\ bid_call.value = 75 * ValueScale

(***************************************************************************)
(* Claims: the greedy optimizer (SpecAgent)                                *)
(***************************************************************************)
HasWindow(p) == p.action = "schedule"

RECURSIVE SumMw(_, _)
SumMw(ks, wl) ==
    IF ks = {} THEN 0
    ELSE LET k == CHOOSE x \in ks : TRUE
         IN  wl[k].required_mw + SumMw(ks \ {k}, wl)

AssignedTo(i) == {k \in DOMAIN plan : HasWindow(plan[k]) /\ plan[k].window_id = i}

\* C2: in every schedule produced, for every window the demands of the jobs
\* assigned to it sum to no more than the capacity available there.
C2_CapacityRespected ==
    \A i \in WindowIds : SumMw(AssignedTo(i), workloads) <= GridWindow(i).available_mw

\* the job run in window i (for its full duration) starts no earlier than its
\* earliest start and ends no later than its deadline
FitsAt(job, i) ==
    /\ i >= job.earliest_start
    /\ i * 60 + job.duration_minutes <= job.latest_end * 60

FeasibleWindow(job, i) ==
    FitsAt(job, i) /\ GridWindow(i).available_mw >= job.required_mw

\* C3: a job with at least one feasible window is assigned a start no earlier
\* than its earliest start and, run for its full duration, ends by its deadline.
C3_DeadlineRespected ==
    \A k \in DOMAIN plan :
        (\E i \in WindowIds : FeasibleWindow(workloads[k], i))
            => (HasWindow(plan[k]) /\ FitsAt(workloads[k], plan[k].start))

\* C4: no job is dropped, and a job with no feasible candidate window still
\* gets a concrete placement rather than an entry with no window.
C4_AlwaysPlaced ==
    /\ Len(plan) = Len(workloads)
    /\ \A k \in DOMAIN plan : plan[k].job_id = workloads[k].job_id /\ HasWindow(plan[k])

(***************************************************************************)
(* Claims: lifecycle queues (SpecMonitor)                                  *)
(***************************************************************************)
AllQueues ==
    pending_jobs \o scheduled_jobs \o running_jobs \o completed_jobs \o failed_jobs

\* C8: after any sequence of update_job_status and get_pending_jobs calls,
\* every job the monitor knows is in exactly one of the five queues, exactly
\* once (and a job it has not generated is in none).
C8_ExactlyOneQueue ==
    \A j \in JobIds :
        Count(j, AllQueues) = IF j <= job_counter THEN 1 ELSE 0

C8_Witness ==
    /\ job_counter = MaxJobs
    /\ Len(failed_jobs) > 0
    /\ Len(pending_jobs) = 0
    /\ \E j \in JobIds : InSeq(j, completed_jobs) \/ InSeq(j, running_jobs)

LifecycleEdge(a, b) ==
    \/ a = "pending" /\ b = "scheduled"
    \/ a = "scheduled" /\ b = "running"
    \/ a = "running" /\ b = "completed"
    \/ a \in {"pending", "scheduled", "running"} /\ b = "failed"

\* C9: a job's status field only changes along pending->scheduled,
\* scheduled->running, running->completed, or non-terminal->failed; a request
\* for any other transition leaves the status unchanged.
C9_StatusFollowsEdges ==
    [][\A j \in JobIds :
          (status[j] # None /\ status'[j] # status[j])
              => LifecycleEdge(status[j], status'[j])]_vars

(***************************************************************************)
(* Claims: the orchestration cycle (SpecCycle)                             *)
(***************************************************************************)
\* the schedule of the cycle in flight is the one optimize returned for new_jobs
ScheduleInHand == pc \in {"execute", "record"}

\* C1: for a non-empty job list optimize returns exactly one assignment per
\* input job, none dropped and none duplicated, on the scheduler's path and
\* on the fallback path alike.
C1_OneAssignmentPerJob ==
    ScheduleInHand =>
        /\ Len(schedule) = Len(new_jobs)
        /\ \A j \in JobIds :
              Count(j, ScheduledJobs(schedule)) = Count(j, new_jobs)

C1_Witness ==
    /\ pc = "execute"
    /\ used_fallback
    /\ Len(new_jobs) >= 2
    /\ Len(schedule) = Len(new_jobs)

\* C10: a job becomes 'scheduled' only if its own transaction was confirmed;
\* a job whose transaction failed keeps status 'pending' and stays in
\* pending_jobs.
C10_ScheduledOnlyIfConfirmed ==
    \A j \in JobIds :
        /\ status[j] = "scheduled" => outcome[j] = "confirmed"
        /\ outcome[j] = "aborted" => (status[j] = "pending" /\ InSeq(j, pending_jobs))

\* every exchange in the log came back without error
AllOk(log) == \A i \in DOMAIN log : log[i].result = "ok"

\* C11: a transaction is recorded as CONFIRMED only if each of its exchanges
\* returned without error, and once an exchange of a transaction has returned
\* an error no further request of that transaction is sent.
C11_ConfirmedOnlyIfAllOk ==
    [][ /\ Len(active_transactions') > Len(active_transactions) => AllOk(txn_log)
        /\ ~AllOk(txn_log) => Len(txn_log') <= Len(txn_log) ]_vars

\* C12: whatever way the transactions of the jobs end, the search request of
\* every job of the schedule is sent: of every job before the one in hand
\* while the schedule is executed, of all of them once execution is over.
C12_EveryJobAttempted ==
    /\ pc = "execute" =>
          \A k \in DOMAIN schedule : k < exec_idx => schedule[k].job \in attempted
    /\ pc = "record" =>
          \A k \in DOMAIN schedule : schedule[k].job \in attempted

C12_Witness ==
    /\ pc = "record"
    /\ Len(schedule) >= 2
    /\ outcome[schedule[1].job] = "aborted"
    /\ schedule[2].job \in attempted

(***************************************************************************)
(* Claims: the order of the protocol requests (SpecProtocol)               *)
(***************************************************************************)
ProtocolOrder == <<"search", "select", "init", "confirm">>

DecisionOrder ==
    <<"search_sent", "select_sent", "init_sent", "confirm_sent", "order_created">>

IsPrefix(s, t) == Len(s) <= Len(t) /\ \A i \in DOMAIN s : s[i] = t[i]

\* the number of responses a transaction in this state has had
ResponsesSeen ==
    CASE txn_state = "searched" -> 1
      [] txn_state = "selected" -> 2
      [] txn_state = "initialized" -> 3
      [] OTHER -> 0

\* the protocol events the cycle of task t audited for job j, in the order
\* they were audited
JobEvents(t, j) ==
    LET es == SelectSeq(audit_log[t],
                        LAMBDA e : e.job_id = j /\ InSeq(e.event, DecisionOrder))
    IN  [i \in DOMAIN es |-> es[i].event]

\* C13: within one job's transaction the requests go out in the order search,
\* select, init, confirm, each only when the responses of all before it are
\* in; in the decision cycle the events of a job are audited in the order
\* search_sent, select_sent, init_sent, confirm_sent, order_created.
C13_RequestsInOrder ==
    /\ IsPrefix([i \in DOMAIN txn_log |-> txn_log[i].step], ProtocolOrder)
    /\ pc = "execute" => Len(txn_log) = ResponsesSeen
    /\ \A t \in Tasks, j \in 1..MaxWorkloads :
          IsPrefix(JobEvents(t, j), DecisionOrder)

C13_Witness ==
    /\ program = "orchestrator"
    /\ txn_state = "initialized"
    /\ Len(txn_log) = 3

(***************************************************************************)
(* Claims: the cycle as a whole and its ledger (SpecCycle, FairCycle)      *)
(***************************************************************************)
\* C14: a run_cycle that finds no pending jobs changes nothing: not the cycle
\* count, not the jobs processed, not the queues, not the ledger.
C14_NoJobsNoOp ==
    [][ (pc = "idle" /\ pc' = "idle") =>
           UNCHANGED <<cycle_count, total_jobs_processed, pending_jobs,
                       scheduled_jobs, running_jobs, completed_jobs, failed_jobs,
                       status, decisions>> ]_vars

Without(d, key) == [k \in DOMAIN d \ {key} |-> d[k]]

\* the record with the value of one field changed
Tampered(d, key) ==
    [d EXCEPT ![key] = IF key \in {"jobs_summary", "schedule"} THEN Append(@, 0)
                       ELSE IF key = "metrics" THEN [@ EXCEPT !.cost_savings = @ + 1]
                       ELSE @ + 1]

\* C15: for every record in the ledger, the hash of the record without its
\* hash field is the stored hash, and the record with any one field changed
\* hashes to something else.
C15_LedgerIntegrity ==
    \A i \in DOMAIN decisions :
        LET d == decisions[i]
        IN  /\ calculate_hash(Without(d, "hash")) = d.hash
            /\ \A key \in DOMAIN d \ {"hash"} :
                  calculate_hash(Without(Tampered(d, key), "hash")) # d.hash

C15_Witness ==
    /\ decisions # <<>>
    /\ Len(decisions[1].schedule) >= 2

\* C16: the record of a cycle whose schedule is the fallback schedule says so.
C16_FallbackTagged ==
    [][ (pc = "record" /\ used_fallback /\ Len(decisions') > Len(decisions)) =>
           LET d == decisions'[Len(decisions')]
           IN  "fallback" \in DOMAIN d /\ d["fallback"] = TRUE ]_vars

\* C17: a cycle ends either as a no-op for want of jobs, or with its schedule
\* (the scheduler's or the fallback) executed and recorded.
C17_ThreeOutcomes ==
    [][ (pc' = "idle" /\ (pc # "idle" \/ cycle_count' # cycle_count)) =>
           \/ pc = "idle" /\ pending_jobs' = <<>>
           \/ /\ pc = "record"
              /\ \A k \in DOMAIN schedule : schedule[k].job \in attempted
              /\ Len(decisions') = Len(decisions) + 1 ]_vars

C19_FallbackDeterministic ==
    (pc = "execute" /\ used_fallback) =>
        \A t \in 0..MaxCycles : fallback_schedule(new_jobs, grid_forecast, t) = schedule


(***************************************************************************)
(* Claims: bid creation (SpecBid)                                          *)
(***************************************************************************)
\* C30: create_bid appends a bid to active_bids and returns it exactly when
\* the net value is > 0; otherwise it returns None and leaves active_bids as
\* it was; the bid price of a created bid is defined (its divisor is not 0)
\* and is expected_revenue / (power_mw * duration_hours).
C30_BidIffPositiveValue ==
    [][ bid_call'.op = "create_bid" =>
          LET v == bid_call'.value
              b == bid_call'.bid
          IN  IF v > 0
              THEN /\ b # <<>>
                   /\ active_bids' = Append(active_bids, b[1])
                   /\ b[1].expected_revenue = v
                   /\ b[1].bid_price_den # 0
                   /\ b[1].bid_price_num = b[1].expected_revenue
                   /\ b[1].bid_price_den * 60
                        = b[1].power_mw * b[1].duration_minutes * ValueScale
              ELSE /\ b = <<>>
                   /\ active_bids' = active_bids ]_vars

C30_Witness ==
    /\ bid_call.op = "create_bid"
    /\ bid_call.value > 0
    /\ bid_call.bid # <<>>
    /\ active_bids = bid_call.bid
    /\ bid_call.bid[1].bid_price_den > 0


(***************************************************************************)
(* Claims: grid forecast sources (SpecIngestor)                            *)
(***************************************************************************)
ForecastKeys ==
    {"price", "carbon", "p415_events", "avg_price", "avg_carbon",
     "min_carbon_hour", "min_price_hour", "horizon_hours"}

\* C24: whichever of the three sources fail, fetch_forecast returns a complete
\* forecast in which each failed source's part is its own fallback (synthetic
\* carbon, synthetic prices, no events) and each other part is the data its
\* source returned, unchanged.
C24_SourceFallbacksIndependent ==
    (fetch_call.op = "fetch_forecast" /\ ~fetch_call.cache_hit) =>
        LET f == fetch_call.forecast[1]
        IN  /\ DOMAIN f = ForecastKeys
            /\ \A r \in Regions : /\ Len(f.price[r]) = fetch_call.horizon_hours
                                  /\ Len(f.carbon[r]) = fetch_call.horizon_hours
            /\ f.carbon = IF fetch_call.carbon.outcome = "raised"
                          THEN fetch_call.mock_carbon ELSE fetch_call.carbon.data
            /\ f.price = IF fetch_call.price.outcome = "raised"
                         THEN fetch_call.mock_price ELSE fetch_call.price.data
            /\ f.p415_events = IF fetch_call.p415.outcome = "raised"
                               THEN <<>> ELSE fetch_call.p415.data

C24_Witness ==
    /\ fetch_call.op = "fetch_forecast"
    /\ ~fetch_call.cache_hit
    /\ fetch_call.carbon.outcome = "raised"
    /\ fetch_call.price.outcome = "returned"
    /\ fetch_call.p415.outcome = "returned"
    /\ fetch_call.p415.data # <<>>
    /\ fetch_call.forecast[1].price = fetch_call.price.data
    /\ fetch_call.forecast[1].carbon = fetch_call.mock_carbon

\* C36: fetch_forecast(horizon_hours = H) returns a forecast of horizon H,
\* its horizon_hours field H and every regional price and carbon series H
\* long, also when the forecast comes from the cache.
C36_ForecastHasHorizonAsked ==
    fetch_call.op = "fetch_forecast" =>
        LET f == fetch_call.forecast[1]
        IN  /\ f.horizon_hours = fetch_call.horizon_hours
            /\ \A r \in Regions : /\ Len(f.price[r]) = fetch_call.horizon_hours
                                  /\ Len(f.carbon[r]) = fetch_call.horizon_hours
(***************************************************************************)
(* Claims: window ranking (SpecForecaster, FairForecaster)                 *)
(***************************************************************************)
\* C25: when the advisory call raises or does not answer,
\* forecast_optimal_windows returns the heuristic's list for the same job and
\* forecast, and a call that awaits the advisory source does return.
C25_AdvisoryFallsBackInTime ==
    /\ [](fc_call.path = "fallback" =>
             fc_call.windows
               = heuristic_forecast(fc_call.job, fc_call.forecast, Horizon))
    /\ (fc_call.pc = "awaiting") ~> (fc_call.pc = "returned")

HeuristicReturned ==
    fc_call.pc = "returned" /\ fc_call.path \in {"heuristic", "fallback"}

\* every (region, start hour) with start + duration <= horizon
WindowsInHorizon(job) ==
    { [region |-> r, start_hour |-> h] :
        r \in Regions, h \in 0..(Horizon - job.duration_hours) }

\* C27: the heuristic ranks every window with start + duration <= horizon, the
\* last start hour included: such a window is returned unless three windows
\* that score no worse are.
C27_LastWindowConsidered ==
    HeuristicReturned =>
        \A w \in WindowsInHorizon(fc_call.job) :
            \/ InSeq(w, fc_call.windows)
            \/ /\ Len(fc_call.windows) = 3
               /\ \A k \in DOMAIN fc_call.windows :
                     Score(fc_call.job, fc_call.forecast, fc_call.windows[k])
                       <= Score(fc_call.job, fc_call.forecast, w)

\* the score of a returned window: the one the advisory answer states, or the
\* heuristic's
ScoreOf(w) ==
    IF fc_call.path = "advisory" THEN w.score
    ELSE Score(fc_call.job, fc_call.forecast, w)

\* C28: on either path forecast_optimal_windows returns at most 3 windows in
\* ascending order of score, and no window the heuristic built and left out
\* scores strictly lower than one it returned.
C28_TopThreeSorted ==
    fc_call.pc = "returned" =>
        /\ Len(fc_call.windows) <= 3
        /\ \A i, k \in DOMAIN fc_call.windows :
              i < k => ScoreOf(fc_call.windows[i]) <= ScoreOf(fc_call.windows[k])
        /\ fc_call.path # "advisory" =>
              LET built == BuiltWindows(fc_call.job, Horizon)
              IN  \A i \in DOMAIN built :
                     ~InSeq(built[i], fc_call.windows) =>
                        \A k \in DOMAIN fc_call.windows :
                           ScoreOf(fc_call.windows[k])
                             <= Score(fc_call.job, fc_call.forecast, built[i])


(***************************************************************************)
(* Claims: the control loop and its interrupt (SpecMain)                   *)
(***************************************************************************)
\* C21: a stop request that arrives while a cycle is in flight does not cut
\* the cycle short: the loop stops between cycles only, so the process is
\* never stopped with a schedule half executed or not yet recorded.
C21_StopOnlyBetweenCycles == stopped => pc = "idle"

(***************************************************************************)
(* Claims: the audit logger (SpecLedger)                                   *)
(***************************************************************************)
Min(a, b) == IF a <= b THEN a ELSE b

\* C22: get_recent_decisions(n) returns the last min(n, total) records of the
\* ledger in append order, for every n >= 0; for n = 0 the empty list.
C22_RecentIsLastN ==
    ledger_call.op = "get_recent_decisions" =>
        LET total == Len(decisions)
            m == Min(ledger_call.count, total)
        IN  ledger_call.returned = SubSeq(decisions, total - m + 1, total)

\* the sum of one metric over the records of the ledger, added up in the
\* order of the records
RECURSIVE SumMetric(_, _)
SumMetric(ledger, field) ==
    IF ledger = <<>> THEN 0
    ELSE FAdd(SumMetric(SubSeq(ledger, 1, Len(ledger) - 1), field),
              ledger[Len(ledger)].metrics[field])

RECURSIVE SumScheduled(_)
SumScheduled(ledger) ==
    IF ledger = <<>> THEN 0
    ELSE Head(ledger).scheduled_count + SumScheduled(Tail(ledger))

TotalsAgree ==
    /\ logger.decisions_logged = Len(decisions)
    /\ \A i \in DOMAIN decisions : decisions[i].decision_id = i - 1
    /\ logger.jobs_processed = SumScheduled(decisions)
    /\ logger.total_cost_saved = SumMetric(decisions, "cost_savings")
    /\ logger.total_carbon_saved = SumMetric(decisions, "carbon_savings")
    /\ logger.total_p415_revenue = SumMetric(decisions, "total_p415_revenue")

\* C23: the ledger holds one record per log_decision call whose write
\* succeeded, in call order, and the running totals agree with the stored
\* records; a call whose write fails changes neither the ledger nor the totals.
C23_LedgerAndTotalsAgree ==
    /\ []TotalsAgree
    /\ [][ (/\ ledger_call'.op = "log_decision"
            /\ <<decisions, logger, ledger_call>>' # <<decisions, logger, ledger_call>>)
           => IF ledger_call'.write_failed
              THEN decisions' = decisions /\ logger' = logger
              ELSE /\ Len(decisions') = Len(decisions) + 1
                   /\ SubSeq(decisions', 1, Len(decisions)) = decisions ]_vars

C23_Witness ==
    /\ ledger_call.op = "log_decision"
    /\ ledger_call.write_failed
    /\ Len(decisions) >= 2
    /\ logger.jobs_processed > 0
    /\ logger.total_cost_saved # 0

(***************************************************************************)
(* Claims: transaction log and transaction identifiers (SpecCycle)         *)
(***************************************************************************)
\* C26: every protocol request sent, whatever comes back, adds exactly one
\* entry to the transaction log.
C26_OneLogEntryPerRequest ==
    [][ Len(requests') = Len(requests) + 1
          => logger'.beckn_transactions_logged
               = logger.beckn_transactions_logged + 1 ]_vars

\* C29: the requests of one job's transaction all carry the one transaction
\* id generated when it started, transactions of different jobs carry
\* different ids, and every confirmed order in active_transactions has an
\* order id and a transaction id of its own and belongs to the job of that
\* transaction.
C29_OneTransactionIdPerJob ==
    /\ \A i, k \in DOMAIN requests :
          (requests[i].job = requests[k].job)
             <=> (requests[i].context.transaction_id
                    = requests[k].context.transaction_id)
    /\ \A i \in DOMAIN requests :
          requests[i].context.transaction_id \in 1..uuid_count
    /\ \A a, b \in DOMAIN active_transactions :
          a # b => /\ active_transactions[a].order_id # active_transactions[b].order_id
                   /\ active_transactions[a].transaction_id
                        # active_transactions[b].transaction_id
    /\ \A a \in DOMAIN active_transactions, i \in DOMAIN requests :
          requests[i].context.transaction_id = active_transactions[a].transaction_id
             => requests[i].job = active_transactions[a].job

C29_Witness ==
    /\ Len(active_transactions) >= 1
    /\ \E i, k \in DOMAIN requests :
          /\ requests[i].job # requests[k].job
          /\ requests[i].context.action = "confirm"
          /\ requests[k].context.action = "select"
          /\ requests[i].context.transaction_id
               = active_transactions[Len(active_transactions)].transaction_id

(***************************************************************************)
(* Claims: status field and queue, errors, terminal states (SpecMonitor)   *)
(***************************************************************************)
QueueOf(st) == st \o "_jobs"

\* C31: after any sequence of update_job_status calls, every job's status
\* field names the queue that holds the job.
C31_StatusNamesQueue ==
    \A j \in JobIds, st \in Statuses :
        InSeq(j, Monitor[QueueOf(st)]) => status[j] = st

Known(j) == InSeq(j, AllQueues)

\* C32: in every state the monitor can be in, update_job_status raises for
\* no job id and no status string, and for a job id the monitor does not
\* know it leaves the five queues and every status as they are.
C32_NeverRaises ==
    \A j \in JobIds, st \in StatusArgs :
        LET m == update_job_status(Monitor, j, st)
        IN  /\ ~m.raised
            /\ ~Known(j) => m = [Monitor EXCEPT !.raised = FALSE]

Terminal(j) == InSeq(j, completed_jobs) \/ InSeq(j, failed_jobs)

\* C33: once a job is in completed_jobs or failed_jobs, no later call
\* changes its status or the queue that holds it.
C33_TerminalAbsorbing ==
    [][\A j \in JobIds :
          Terminal(j) =>
              /\ status'[j] = status[j]
              /\ \A st \in Statuses :
                    Count(j, Monitor[QueueOf(st)]') = Count(j, Monitor[QueueOf(st)])]_vars

C33_Witness ==
    /\ \E j \in JobIds : InSeq(j, completed_jobs) /\ status[j] = "completed"
    /\ \E j \in JobIds : InSeq(j, failed_jobs) /\ status[j] = "failed"

(***************************************************************************)
(* Claims: jobs across cycles and the two sets of counters (SpecCycle)     *)
(***************************************************************************)
Recorded(j) == {i \in DOMAIN decisions : InSeq(j, decisions[i].schedule)}

RecordedJobs == {j \in JobIds : Recorded(j) # {}}

\* C34: across the cycles, a job is in the schedule of at most one record of
\* the ledger, and once only; the jobs processed count no job twice; and a
\* job of a recorded schedule is not pending any more, so that no later
\* cycle is handed it.
C34_JobRecordedOnce ==
    /\ \A j \in JobIds :
          /\ Cardinality(Recorded(j)) <= 1
          /\ \A i \in Recorded(j) : Count(j, decisions[i].schedule) = 1
          /\ Recorded(j) # {} => ~InSeq(j, pending_jobs) /\ ~InSeq(j, new_jobs)
    /\ total_jobs_processed <= Cardinality(RecordedJobs)

C34_Witness ==
    /\ Len(decisions) = 2
    /\ Cardinality(RecordedJobs) = 2
    /\ total_jobs_processed = 2
    /\ cycle_count = 2

OwnWorkload(t, j) ==
    LET wl == dc_workloads[t]
    IN  wl[CHOOSE k \in DOMAIN wl : wl[k].job_id = j]

\* C37: the search criteria, the select request and the init order sent for a
\* scheduled job carry that job's own required capacity, duration, carbon
\* budget and type, for every job of a workload list with more than one job.
C37_RequestsCarryOwnJob ==
    \A t \in Tasks : \A i \in DOMAIN audit_log[t] :
        LET e == audit_log[t][i]
        IN  (Len(dc_workloads[t]) > 1
             /\ e.event \in {"search_sent", "select_sent", "init_sent"}) =>
               LET w == OwnWorkload(t, e.job_id)
               IN  /\ e.event = "search_sent" =>
                         /\ e.details.capacity_mw = w.required_mw
                         /\ e.details.max_carbon = w.carbon_budget_gco2_per_kwh
                   /\ e.event = "select_sent" =>
                         e.details.requested_capacity_mw = w.required_mw
                   /\ e.event = "init_sent" =>
                         /\ e.details.required_mw = w.required_mw
                         /\ e.details.duration_minutes = w.duration_minutes
                         /\ e.details.type = w.type

\* C38: across any sequence of decision cycles each order receives the
\* 'started' and 'completed' status messages, and its order_started,
\* order_completed and settlement audit events, at most once.
C38_OrderServedOnce ==
    \A o \in OrderIds :
        /\ status_sent[o].started <= 1
        /\ status_sent[o].completed <= 1
        /\ status_sent[o].settlement <= 1

\* C39: once an order is recorded in ORDERS with status 'confirmed' its status
\* never goes back to 'initiated' and its job and window data are never lost,
\* whatever on_init and on_confirm callbacks arrive between the steps of the
\* decision cycles.
C39_ConfirmedStays ==
    [][\A i \in DOMAIN ORDERS :
          ORDERS[i].status = "confirmed" =>
             /\ ORDERS'[i].status = "confirmed"
             /\ "job_id" \in DOMAIN ORDERS[i] =>
                   /\ "job_id" \in DOMAIN ORDERS'[i]
                   /\ ORDERS'[i].job_id = ORDERS[i].job_id
                   /\ ORDERS'[i].window_id = ORDERS[i].window_id]_vars

\* C40: while a decision cycle iterates over ORDERS in its monitoring loop no
\* other task inserts a new key into ORDERS: ORDERS never has another size
\* than when the loop began.
C40_NoInsertWhileIterating ==
    \A t \in Tasks : dc_step[t] = "monitor" => Len(ORDERS) = dc_iter[t].used

=============================================================================
